---- MODULE Spec2Model ----
(***************************************************************************)
(* ConsultEase faculty desk unit: presence detection (BLEManager), the     *)
(* two-layer connection supervisor (NetworkManager) and the consultation   *)
(* slot (ConsultationManager), modelled from src/faculty_desk_unit.        *)
(*                                                                         *)
(* One clock, now, stands for millis().  Every public method is one        *)
(* action; the outcomes of the radio, the broker and the transport are     *)
(* inputs of the action.  The ghost records bleOp, netOp and conOp hold    *)
(* the last call of each component (its arguments, its return value and    *)
(* the collaborator calls it made), so that a property can speak of "the   *)
(* call that just happened".                                               *)
(***************************************************************************)
EXTENDS Integers, Sequences, FiniteSets, TLC

(***************************************************************************)
(* Time.  millis() is an unsigned long; the model keeps the clock on a     *)
(* grid of TimeStep milliseconds up to MaxTime.  Unsigned subtraction      *)
(* wraps: a - b with a < b is a huge positive number.  TLC's integers are  *)
(* 32-bit signed, so the word is modelled by ULongModulus, far above every *)
(* time constant of the program.                                           *)
(***************************************************************************)
TimeStep == 30000

MaxTime == 180000

MaxDirectTime == 60000

MaxStale == 1

ULongModulus == 1073741824

USub(a, b) == (a - b + ULongModulus) % ULongModulus

UAdd(a, b) == (a + b) % ULongModulus

(* config.h *)
BLE_CONNECTION_TIMEOUT == 30000

BLE_RSSI_THRESHOLD == -80

(* network_manager.h:20-23 *)
WIFI_CONNECT_TIMEOUT == 30000

WIFI_MAX_RETRIES == 5

MQTT_MAX_RETRIES == 3

(* Used at network_manager.h:432, 441 and 454; no file of src defines it. *)
(* The model takes 5000 ms, below the timeouts and the extra minute.      *)
CONNECTION_RETRY_INTERVAL == 5000

(* network_manager.h:441, the extra minute after WIFI_MAX_RETRIES *)
WIFI_COOLDOWN_EXTRA == 60000

(* network_manager.h:466, the pause after the link is forced down *)
ESCALATION_DELAY == 1000

MaxRetryCount == 6

(* button_manager.h:15 *)
BUTTON_DEBOUNCE_DELAY == 50

(* The button clock: update() is called every ButtonStep ms at the most,   *)
(* up to MaxButtonTime.                                                    *)
ButtonStep == 25

MaxButtonTime == 100

(* power_manager.h:51-53 *)
normalFrequencyMHz == 240

balancedFrequencyMHz == 160

lowPowerFrequencyMHz == 80

(* The frames the task's stack has room for. *)
MaxStackDepth == 8

TARGET_BLE_MAC_ADDRESS == "51:00:25:04:02:A2"

OTHER_MAC_ADDRESS == "AA:BB:CC:DD:EE:FF"

Addresses == {TARGET_BLE_MAC_ADDRESS, OTHER_MAC_ADDRESS}

RssiValues == {-90, -80, -70}

VARIABLES
    now,                    \* millis()
    \* BLEManager (ble_manager.h:21-28)
    isFacultyPresent,
    bleScanActive,
    lastBeaconSignalTime,
    manualOverrideActive,
    manualOverrideStatus,
    rssiThreshold,
    isScanning,             \* pBLEScan->isScanning()
    bleOp,                  \* ghost: the last BLEManager call
    \* NetworkManager (network_manager.h:30-42, 449)
    radioUp,                \* WiFi.status() == WL_CONNECTED
    clientConnected,        \* mqttClient->connected()
    wifiConnected,
    wifiRetryCount,
    lastWifiRetryTime,
    mqttConnected,
    mqttRetryCount,
    lastMqttRetryTime,
    wasMQTTConnected,       \* the static local of maintainConnections
    mqttFailStreak,         \* ghost: consecutive failed session attempts, link up throughout
    netOp,                  \* ghost: the last NetworkManager call
    \* ConsultationManager (consultation_manager.h:20-24)
    currentConsultationId,
    currentConsultationStatus,
    currentStudentName,
    currentRequestMessage,
    pendingRequest,
    conOp,                  \* ghost: the last ConsultationManager call
    \* ButtonManager (button_manager.h:25-40)
    manualOverrideState,
    lastManualOverrideState,
    lastManualOverrideDebounceTime,
    acceptState,
    lastAcceptState,
    lastAcceptDebounceTime,
    rejectState,
    lastRejectState,
    lastRejectDebounceTime,
    btnManualOverridePressed,
    btnAcceptPressed,
    btnRejectPressed,
    btnOp                   \* ghost: the last ButtonManager call
    \* (the three event flags carry the prefix btn: the parameters of
    \* handleConsultationActionButtons have their names)
    ,
    \* PowerManager (power_manager.h:26-27)
    currentMode,
    wifiPowerSavingEnabled,
    pwrStack,               \* the calls of PowerManager in progress, innermost last
    pwrTailCalls,           \* whether the build turns `return f(x);` into a jump
    pwrOp                   \* ghost: the last PowerManager call that ended

bleVars == <<isFacultyPresent, bleScanActive, lastBeaconSignalTime,
             manualOverrideActive, manualOverrideStatus, rssiThreshold,
             isScanning, bleOp>>

netVars == <<radioUp, clientConnected, wifiConnected, wifiRetryCount,
             lastWifiRetryTime, mqttConnected, mqttRetryCount,
             lastMqttRetryTime, wasMQTTConnected, mqttFailStreak, netOp>>

conVars == <<currentConsultationId, currentConsultationStatus,
             currentStudentName, currentRequestMessage, pendingRequest, conOp>>

btnVars == <<manualOverrideState, lastManualOverrideState,
             lastManualOverrideDebounceTime, acceptState, lastAcceptState,
             lastAcceptDebounceTime, rejectState, lastRejectState,
             lastRejectDebounceTime, btnManualOverridePressed, btnAcceptPressed,
             btnRejectPressed, btnOp>>

pwrVars == <<currentMode, wifiPowerSavingEnabled, pwrStack, pwrTailCalls,
             pwrOp>>

vars == <<now, bleVars, netVars, conVars, btnVars, pwrVars>>

(***************************************************************************)
(* The clock advances between calls.                                       *)
(***************************************************************************)
Tick ==
    /\ now + TimeStep <= MaxTime
    /\ now' = now + TimeStep
    /\ UNCHANGED <<bleVars, netVars, conVars, btnVars, pwrVars>>

(***************************************************************************)
(* BLEManager                                                              *)
(***************************************************************************)
NoBleOp == [op |-> "none", address |-> "", rssi |-> 0, time |-> 0,
            override |-> FALSE, presentBefore |-> FALSE, ret |-> FALSE,
            active |-> FALSE, status |-> FALSE]

BleCall(name, t, r) ==
    [op |-> name, address |-> "", rssi |-> 0, time |-> t,
     override |-> manualOverrideActive, presentBefore |-> isFacultyPresent,
     ret |-> r, active |-> FALSE, status |-> FALSE]

BLEInit ==
    /\ isFacultyPresent = FALSE
    /\ bleScanActive = FALSE
    /\ lastBeaconSignalTime = 0
    /\ manualOverrideActive = FALSE
    /\ manualOverrideStatus = FALSE
    /\ rssiThreshold = BLE_RSSI_THRESHOLD
    /\ isScanning = FALSE
    /\ bleOp = NoBleOp

(* getFacultyPresence without the override branch. *)
getFacultyPresenceIgnoringOverride == isFacultyPresent

getFacultyPresence ==
    IF manualOverrideActive THEN manualOverrideStatus ELSE isFacultyPresent

(* OnResultSkipped with the override test left out. *)
OnResultNeverSkipped(override) == FALSE

(* onResult, lines 40-42: the callback returns at once under override. *)
OnResultSkipped(override) == override

(* onResult, line 59 *)
AddressEquals(advertised, target) == advertised = target

(* RssiBelowThreshold rejecting a signal equal to the threshold. *)
RssiAtOrBelowThreshold(threshold, rssi) == threshold # 0 /\ rssi <= threshold

(* onResult, lines 63-69: 0 disables the threshold. *)
RssiBelowThreshold(threshold, rssi) == threshold # 0 /\ rssi < threshold

OnResultAccepts(address, rssi) ==
    /\ ~OnResultSkipped(manualOverrideActive)
    /\ AddressEquals(address, TARGET_BLE_MAC_ADDRESS)
    /\ ~RssiBelowThreshold(rssiThreshold, rssi)

(* setFacultyPresent: the flag, and the timestamp when present. *)
setFacultyPresent(present, millis) ==
    [isFacultyPresent |-> IF isFacultyPresent # present THEN present
                          ELSE isFacultyPresent,
     lastBeaconSignalTime |-> IF present THEN millis ELSE lastBeaconSignalTime]

(* The scanner reports an advertisement; it reports only while it scans.   *)
(* A match stops the running scan (lines 78-82).                           *)
onResult(address, rssi) ==
    /\ isScanning
    /\ LET accept == OnResultAccepts(address, rssi)
           set == setFacultyPresent(TRUE, now)
       IN /\ isFacultyPresent' = IF accept THEN set.isFacultyPresent
                                 ELSE isFacultyPresent
          /\ lastBeaconSignalTime' = IF accept THEN set.lastBeaconSignalTime
                                     ELSE lastBeaconSignalTime
          /\ isScanning' = IF accept THEN FALSE ELSE isScanning
          /\ bleScanActive' = IF accept THEN FALSE ELSE bleScanActive
          /\ bleOp' = [op |-> "onResult", address |-> address, rssi |-> rssi,
                       time |-> now, override |-> manualOverrideActive,
                       presentBefore |-> isFacultyPresent, ret |-> accept,
                       active |-> FALSE, status |-> FALSE]
    /\ UNCHANGED <<now, manualOverrideActive, manualOverrideStatus,
                   rssiThreshold, netVars, conVars, btnVars, pwrVars>>

(* startScan refuses under override or while a scan is in progress. *)
StartScanRefused == manualOverrideActive \/ bleScanActive \/ isScanning

startScan(started) ==
    /\ LET result == ~StartScanRefused /\ started
       IN /\ bleScanActive' = IF StartScanRefused THEN bleScanActive ELSE result
          /\ isScanning' = IF StartScanRefused THEN isScanning ELSE result
          /\ bleOp' = BleCall("startScan", now, result)
    /\ UNCHANGED <<now, isFacultyPresent, lastBeaconSignalTime,
                   manualOverrideActive, manualOverrideStatus, rssiThreshold,
                   netVars, conVars, btnVars, pwrVars>>

stopScan ==
    /\ isScanning' = FALSE
    /\ bleScanActive' = IF isScanning THEN FALSE ELSE bleScanActive
    /\ bleOp' = BleCall("stopScan", now, FALSE)
    /\ UNCHANGED <<now, isFacultyPresent, lastBeaconSignalTime,
                   manualOverrideActive, manualOverrideStatus, rssiThreshold,
                   netVars, conVars, btnVars, pwrVars>>

(* The scan window of BLE_SCAN_DURATION seconds ends (startScan, line 175: *)
(* not continuous, no completion callback).                                *)
ScanWindowExpires ==
    /\ isScanning
    /\ isScanning' = FALSE
    /\ UNCHANGED <<now, isFacultyPresent, bleScanActive, lastBeaconSignalTime,
                   manualOverrideActive, manualOverrideStatus, rssiThreshold,
                   bleOp, netVars, conVars, btnVars, pwrVars>>

(* TimeoutFires with >= for >. *)
TimeoutFiresAtThreshold(currentTime) ==
    /\ ~manualOverrideActive
    /\ isFacultyPresent
    /\ USub(currentTime, lastBeaconSignalTime) >= BLE_CONNECTION_TIMEOUT

(* TimeoutFires without the test of the presence flag. *)
TimeoutFiresWhenAbsent(currentTime) ==
    /\ ~manualOverrideActive
    /\ USub(currentTime, lastBeaconSignalTime) > BLE_CONNECTION_TIMEOUT

(* checkFacultyTimeout, lines 205-214, in unsigned arithmetic. *)
TimeoutFires(currentTime) ==
    /\ ~manualOverrideActive
    /\ isFacultyPresent
    /\ USub(currentTime, lastBeaconSignalTime) > BLE_CONNECTION_TIMEOUT

(* The caller passes the time it sampled, which may be up to MaxStale *)
(* steps old when the call runs.                                      *)
SampledTimes == {t \in {now - k * TimeStep : k \in 0..MaxStale} : t >= 0}

checkFacultyTimeout(currentTime) ==
    /\ LET fires == TimeoutFires(currentTime)
       IN /\ isFacultyPresent' = IF fires THEN FALSE ELSE isFacultyPresent
          /\ bleOp' = BleCall("checkFacultyTimeout", currentTime, fires)
    /\ UNCHANGED <<now, bleScanActive, lastBeaconSignalTime,
                   manualOverrideActive, manualOverrideStatus, rssiThreshold,
                   isScanning, netVars, conVars, btnVars, pwrVars>>

(* setManualOverride that can switch the override on but not off. *)
setManualOverrideLatched(active, status) ==
    /\ manualOverrideActive' = (manualOverrideActive \/ active)
    /\ manualOverrideStatus' = status
    /\ bleOp' = [BleCall("setManualOverride", now, FALSE)
                 EXCEPT !.active = active, !.status = status]
    /\ UNCHANGED <<now, isFacultyPresent, bleScanActive, lastBeaconSignalTime,
                   rssiThreshold, isScanning, netVars, conVars, btnVars, pwrVars>>

setManualOverride(active, status) ==
    /\ manualOverrideActive' = active
    /\ manualOverrideStatus' = status
    /\ bleOp' = [BleCall("setManualOverride", now, FALSE)
                 EXCEPT !.active = active, !.status = status]
    /\ UNCHANGED <<now, isFacultyPresent, bleScanActive, lastBeaconSignalTime,
                   rssiThreshold, isScanning, netVars, conVars, btnVars, pwrVars>>

BLENext ==
    \/ \E a \in Addresses, r \in RssiValues : onResult(a, r)
    \/ \E started \in BOOLEAN : startScan(started)
    \/ stopScan
    \/ ScanWindowExpires
    \/ \E t \in SampledTimes : checkFacultyTimeout(t)
    \/ \E active \in BOOLEAN, status \in BOOLEAN : setManualOverride(active, status)

(***************************************************************************)
(* NetworkManager                                                          *)
(***************************************************************************)
(* network_manager.h:100 with mqtt_topics.h:12 and 25 *)
topicStatus == "consultease/faculty/F12345/status"

(* network_manager.h:101 with mqtt_topics.h:12 and 27 *)
topicRequests == "consultease/faculty/F12345/request"

(* network_manager.h:102 with mqtt_topics.h:12 and 28 *)
topicResponse == "consultease/faculty/F12345/response"

(* The last call, and what the calls so far left behind: when the last    *)
(* link attempt ended, how many link attempts failed in a row, whether the *)
(* link flag was ever up, and when maintainConnections last started a link *)
(* attempt and a session attempt (-1: never).                              *)
NoNetOp == [op |-> "none", ret |-> FALSE, wifiAttempt |-> FALSE,
            mqttAttempt |-> FALSE, linkAtMqttAttempt |-> FALSE,
            clientConnectCalled |-> FALSE, subscribes |-> 0,
            wifiDisconnect |-> FALSE, streak |-> 0, sessionBefore |-> FALSE,
            sessionAtEntry |-> FALSE, wasBefore |-> FALSE, retryBefore |-> 0,
            subscribedTo |-> "",
            linkBefore |-> FALSE, linkOk |-> FALSE, wifiRetryBefore |-> 0,
            sessionOk |-> FALSE,
            linkAtSessionTest |-> FALSE, sessionElapsed |-> 0,
            linkGap |-> -1, linkRest |-> -1, linkFailsBefore |-> 0,
            linkedBefore |-> FALSE, sessionGap |-> -1,
            linkAttemptStart |-> -1, linkAttemptEnd |-> -1, linkFails |-> 0,
            everLinked |-> FALSE, sessionAttemptAt |-> -1,
            radioAtEntry |-> FALSE]

(* The record of a new call: what the calls before it left behind. *)
Carry(prev) ==
    [NoNetOp EXCEPT !.linkAttemptStart = prev.linkAttemptStart,
                    !.linkAttemptEnd = prev.linkAttemptEnd,
                    !.linkFails = prev.linkFails,
                    !.everLinked = prev.everLinked,
                    !.sessionAttemptAt = prev.sessionAttemptAt,
                    !.linkFailsBefore = prev.linkFails,
                    !.linkedBefore = prev.everLinked,
                    !.linkBefore = wifiConnected,
                    !.wifiRetryBefore = wifiRetryCount,
                    !.sessionBefore = mqttConnected,
                    !.wasBefore = wasMQTTConnected,
                    !.retryBefore = mqttRetryCount]

(* A link attempt that ran from start to end with the result ok, started   *)
(* by maintainConnections (byTick) or by another caller.                   *)
LinkAttempted(g, start, end, ok, byTick) ==
    [g EXCEPT !.wifiAttempt = TRUE,
              !.linkOk = ok,
              !.linkGap = IF g.linkAttemptStart = -1 \/ ~byTick THEN -1
                          ELSE start - g.linkAttemptStart,
              !.linkRest = IF g.linkAttemptEnd = -1 THEN -1
                           ELSE start - g.linkAttemptEnd,
              !.linkAttemptStart = IF byTick THEN start
                                   ELSE g.linkAttemptStart,
              !.linkAttemptEnd = end,
              !.linkFails = IF ok THEN 0 ELSE g.linkFails + 1,
              !.everLinked = g.everLinked \/ ok]

(* A session attempt that maintainConnections started at the time at. *)
SessionAttempted(g, at) ==
    [g EXCEPT !.sessionGap = IF g.sessionAttemptAt = -1 THEN -1
                             ELSE at - g.sessionAttemptAt,
              !.sessionAttemptAt = at]

NetInit ==
    /\ radioUp = FALSE
    /\ clientConnected = FALSE
    /\ wifiConnected = FALSE
    /\ wifiRetryCount = 0
    /\ lastWifiRetryTime = 0
    /\ mqttConnected = FALSE
    /\ mqttRetryCount = 0
    /\ lastMqttRetryTime = 0
    /\ wasMQTTConnected = FALSE
    /\ mqttFailStreak = 0
    /\ netOp = NoNetOp

isWiFiConnected == wifiConnected

isMQTTConnected == mqttConnected

(* connectToWiFi, lines 186-232: the outcome of the wait loop decides. *)
ConnectToWiFiOutcome(statusConnected, retryCount) ==
    IF statusConnected
    THEN [ret |-> TRUE, wifiConnected |-> TRUE, wifiRetryCount |-> 0]
    ELSE [ret |-> FALSE, wifiConnected |-> FALSE,
          wifiRetryCount |-> retryCount + 1]

(* The wait loop of connectToWiFi, lines 163-184: a failure is a wait of   *)
(* WIFI_CONNECT_TIMEOUT, a success takes up to that long.                  *)
WiFiWaits(statusConnected) ==
    IF statusConnected THEN {0, TimeStep} ELSE {WIFI_CONNECT_TIMEOUT}

(* PubSubClient::connect: true at once when the client is connected,       *)
(* otherwise the broker decides, and only a radio that is up reaches it.   *)
ClientConnect(connected, radio, brokerAccepts) ==
    connected \/ (brokerAccepts /\ radio)

(* The time a session handshake takes. *)
MqttWaits == {0, TimeStep}

(* ConnectToMQTTOutcome without the test of the link flag. *)
ConnectToMQTTUnguarded(link, session, retryCount, connectResult) ==
    IF connectResult
    THEN [ret |-> TRUE, mqttConnected |-> TRUE, mqttRetryCount |-> 0,
          clientConnectCalled |-> TRUE, subscribes |-> 1]
    ELSE [ret |-> FALSE, mqttConnected |-> FALSE,
          mqttRetryCount |-> retryCount + 1, clientConnectCalled |-> TRUE,
          subscribes |-> 0]

(* connectToMQTT, lines 276-396.  link is wifiConnected at the call. *)
ConnectToMQTTOutcome(link, session, retryCount, connectResult) ==
    IF ~link
    THEN [ret |-> FALSE, mqttConnected |-> session,
          mqttRetryCount |-> retryCount, clientConnectCalled |-> FALSE,
          subscribes |-> 0]
    ELSE IF connectResult
    THEN [ret |-> TRUE, mqttConnected |-> TRUE, mqttRetryCount |-> 0,
          clientConnectCalled |-> TRUE, subscribes |-> 1]
    ELSE [ret |-> FALSE, mqttConnected |-> FALSE,
          mqttRetryCount |-> retryCount + 1, clientConnectCalled |-> TRUE,
          subscribes |-> 0]

(* The session attempts that failed in a row while the link flag stayed up. *)
StreakAfter(streak, outcome) ==
    IF ~outcome.clientConnectCalled THEN streak
    ELSE IF outcome.ret THEN 0 ELSE streak + 1

StreakAtRest(streak, link) == IF link THEN streak ELSE 0

(* WifiRetryDue deciding by the counter and the timer alone. *)
WifiRetryDueTimerOnly(link, retryCount, elapsed) ==
    retryCount < WIFI_MAX_RETRIES /\ elapsed > CONNECTION_RETRY_INTERVAL

(* maintainConnections, lines 430-432 *)
WifiRetryDue(link, retryCount, elapsed) ==
    ~link \/ (retryCount < WIFI_MAX_RETRIES /\ elapsed > CONNECTION_RETRY_INTERVAL)

(* maintainConnections, lines 438-441 *)
WifiCooldownStarts(link, retryCount) ==
    ~link /\ retryCount >= WIFI_MAX_RETRIES

(* MqttRetryDue without the test of the time since the last attempt. *)
MqttRetryDueEveryTick(link, session, elapsed) == link /\ ~session

(* maintainConnections, lines 452-454 *)
MqttRetryDue(link, session, elapsed) ==
    link /\ ~session /\ elapsed > CONNECTION_RETRY_INTERVAL

(* MqttEscalates one failure late. *)
MqttEscalatesLate(session, retryCount) ==
    ~session /\ retryCount > MQTT_MAX_RETRIES

(* maintainConnections, line 460 *)
MqttEscalates(session, retryCount) ==
    ~session /\ retryCount >= MQTT_MAX_RETRIES

(* maintainConnections, line 472 *)
ReconnectionDetected(session, wasConnected) == session /\ ~wasConnected

(* connectToWiFi called on its own. *)
connectToWiFi(statusConnected, wait) ==
    /\ wait \in WiFiWaits(statusConnected)
    /\ now + wait <= MaxTime
    /\ statusConnected \/ wifiRetryCount < MaxRetryCount
    /\ LET w == ConnectToWiFiOutcome(statusConnected, wifiRetryCount)
       IN /\ wifiConnected' = w.wifiConnected
          /\ wifiRetryCount' = w.wifiRetryCount
          /\ mqttFailStreak' = StreakAtRest(mqttFailStreak, w.wifiConnected)
          /\ netOp' = [LinkAttempted(Carry(netOp), now, now + wait, w.ret, FALSE)
                          EXCEPT !.op = "connectToWiFi", !.ret = w.ret,
                                 !.sessionAtEntry = mqttConnected]
    /\ radioUp' = statusConnected
    /\ now' = now + wait
    /\ UNCHANGED <<clientConnected, lastWifiRetryTime, mqttConnected,
                   mqttRetryCount, lastMqttRetryTime, wasMQTTConnected,
                   bleVars, conVars, btnVars, pwrVars>>

(* connectToMQTT called on its own. *)
connectToMQTT(brokerAccepts, wait) ==
    /\ wait \in (IF wifiConnected THEN MqttWaits ELSE {0})
    /\ now + wait <= MaxTime
    /\ mqttRetryCount < MaxRetryCount
    /\ LET m == ConnectToMQTTOutcome(wifiConnected, mqttConnected, mqttRetryCount,
                    ClientConnect(clientConnected, radioUp, brokerAccepts))
           s == StreakAfter(mqttFailStreak, m)
       IN /\ mqttConnected' = m.mqttConnected
          /\ mqttRetryCount' = m.mqttRetryCount
          /\ clientConnected' = IF m.clientConnectCalled THEN m.ret
                                ELSE clientConnected
          /\ mqttFailStreak' = StreakAtRest(s, wifiConnected)
          /\ netOp' = [Carry(netOp)
                          EXCEPT !.op = "connectToMQTT", !.ret = m.ret,
                                 !.mqttAttempt = TRUE,
                                 !.sessionOk = m.ret,
                                 !.linkAtMqttAttempt = wifiConnected,
                                 !.clientConnectCalled = m.clientConnectCalled,
                                 !.subscribes = m.subscribes,
                                 !.subscribedTo = IF m.subscribes > 0
                                                  THEN topicRequests ELSE "",
                                 !.streak = s,
                                 !.sessionAtEntry = mqttConnected]
    /\ now' = now + wait
    /\ UNCHANGED <<radioUp, wifiConnected, wifiRetryCount, lastWifiRetryTime,
                   lastMqttRetryTime, wasMQTTConnected, bleVars, conVars, btnVars, pwrVars>>

(* initialize, lines 120-139: the link, then the session if the link is up. *)
initialize(statusConnected, wifiWait, brokerAccepts, mqttWait) ==
    /\ wifiWait \in WiFiWaits(statusConnected)
    /\ mqttWait \in (IF statusConnected THEN MqttWaits ELSE {0})
    /\ now + wifiWait + mqttWait <= MaxTime
    /\ statusConnected \/ wifiRetryCount < MaxRetryCount
    /\ mqttRetryCount < MaxRetryCount
    /\ LET w == ConnectToWiFiOutcome(statusConnected, wifiRetryCount)
           m == ConnectToMQTTOutcome(w.wifiConnected, mqttConnected, mqttRetryCount,
                    ClientConnect(clientConnected, statusConnected, brokerAccepts))
           called == w.ret
           s == IF called THEN StreakAfter(StreakAtRest(mqttFailStreak, TRUE), m)
                ELSE mqttFailStreak
       IN /\ wifiConnected' = w.wifiConnected
          /\ wifiRetryCount' = w.wifiRetryCount
          /\ mqttConnected' = IF called THEN m.mqttConnected ELSE mqttConnected
          /\ mqttRetryCount' = IF called THEN m.mqttRetryCount ELSE mqttRetryCount
          /\ clientConnected' = IF called /\ m.clientConnectCalled THEN m.ret
                                ELSE clientConnected
          /\ mqttFailStreak' = StreakAtRest(s, w.wifiConnected)
          /\ netOp' = [LinkAttempted(Carry(netOp), now, now + wifiWait, w.ret, FALSE)
                          EXCEPT !.op = "initialize",
                                 !.ret = called /\ m.ret,
                                 !.mqttAttempt = called,
                                 !.sessionOk = called /\ m.ret,
                                 !.linkAtMqttAttempt = called /\ w.wifiConnected,
                                 !.clientConnectCalled = called /\ m.clientConnectCalled,
                                 !.subscribes = IF called THEN m.subscribes ELSE 0,
                                 !.subscribedTo = IF called /\ m.subscribes > 0
                                                  THEN topicRequests ELSE "",
                                 !.streak = s,
                                 !.sessionAtEntry = mqttConnected]
    /\ radioUp' = statusConnected
    /\ now' = now + wifiWait + mqttWait
    /\ UNCHANGED <<lastWifiRetryTime, lastMqttRetryTime, wasMQTTConnected,
                   bleVars, conVars, btnVars, pwrVars>>

(* maintainConnections, lines 426-483, one tick of the supervisor.  The    *)
(* inputs are the outcome and length of the link attempt and of the        *)
(* session attempt, used only when the tick makes that attempt.            *)
maintainConnections(statusConnected, wifiWait, brokerAccepts, mqttWait) ==
    LET wifiTry == ~radioUp /\ WifiRetryDue(wifiConnected, wifiRetryCount,
                                           USub(now, lastWifiRetryTime))
        w == ConnectToWiFiOutcome(statusConnected, wifiRetryCount)
        t1 == IF wifiTry THEN now + wifiWait ELSE now
        link1 == IF radioUp THEN TRUE
                 ELSE IF wifiTry THEN w.ret ELSE wifiConnected
        wifiRetry1 == IF wifiTry THEN w.wifiRetryCount ELSE wifiRetryCount
        cooldown == wifiTry /\ WifiCooldownStarts(link1, wifiRetry1)
        lastWifi1 == IF cooldown
                     THEN UAdd(USub(t1, CONNECTION_RETRY_INTERVAL), WIFI_COOLDOWN_EXTRA)
                     ELSE IF wifiTry THEN now ELSE lastWifiRetryTime
        radio1 == IF wifiTry THEN statusConnected ELSE radioUp
        session0 == clientConnected
        mqttTry == MqttRetryDue(link1, session0, USub(t1, lastMqttRetryTime))
        m == ConnectToMQTTOutcome(link1, session0, mqttRetryCount,
                 ClientConnect(clientConnected, radio1, brokerAccepts))
        session1 == IF mqttTry THEN m.ret ELSE session0
        mqttRetry1 == IF mqttTry THEN m.mqttRetryCount ELSE mqttRetryCount
        escalate == mqttTry /\ MqttEscalates(session1, mqttRetry1)
        link2 == IF escalate THEN FALSE ELSE link1
        resubscribe == ReconnectionDetected(session1, wasMQTTConnected)
        s == IF mqttTry THEN StreakAfter(StreakAtRest(mqttFailStreak, link1), m)
             ELSE StreakAtRest(mqttFailStreak, link1)
        t2 == IF escalate THEN t1 + mqttWait + ESCALATION_DELAY ELSE t1 + mqttWait
        g0 == Carry(netOp)
        g1 == IF wifiTry THEN LinkAttempted(g0, now, t1, w.ret, TRUE)
              ELSE [g0 EXCEPT !.everLinked = g0.everLinked \/ link1]
        g2 == IF mqttTry THEN SessionAttempted(g1, t1) ELSE g1
    IN /\ IF wifiTry
          THEN /\ wifiWait \in WiFiWaits(statusConnected)
               /\ statusConnected \/ wifiRetryCount < MaxRetryCount
          ELSE wifiWait = 0 /\ ~statusConnected
       /\ IF mqttTry
          THEN mqttWait \in MqttWaits
          ELSE mqttWait = 0 /\ ~brokerAccepts
       /\ t2 <= MaxTime
       /\ now' = t2
       /\ radioUp' = IF escalate THEN FALSE ELSE radio1
       /\ wifiConnected' = link2
       /\ wifiRetryCount' = IF escalate THEN 0 ELSE wifiRetry1
       /\ lastWifiRetryTime' = lastWifi1
       /\ clientConnected' = IF mqttTry /\ m.clientConnectCalled THEN m.ret
                             ELSE clientConnected
       /\ mqttConnected' = session1
       /\ mqttRetryCount' = IF escalate THEN 0 ELSE mqttRetry1
       /\ lastMqttRetryTime' = IF mqttTry THEN t1 ELSE lastMqttRetryTime
       /\ wasMQTTConnected' = session1
       /\ mqttFailStreak' = StreakAtRest(s, link2)
       /\ netOp' = [g2 EXCEPT
                       !.op = "maintainConnections",
                       !.ret = link2 /\ session1,
                       !.mqttAttempt = mqttTry,
                       !.sessionOk = mqttTry /\ m.ret,
                       !.linkAtMqttAttempt = mqttTry /\ link1,
                       !.linkAtSessionTest = link1,
                       !.sessionElapsed = USub(t1, lastMqttRetryTime),
                       !.clientConnectCalled = mqttTry /\ m.clientConnectCalled,
                       !.subscribes = (IF mqttTry THEN m.subscribes ELSE 0)
                                      + (IF resubscribe THEN 1 ELSE 0),
                       !.subscribedTo = IF (mqttTry /\ m.subscribes > 0)
                                           \/ resubscribe
                                        THEN topicRequests ELSE "",
                       !.wifiDisconnect = escalate,
                       !.streak = s,
                       !.sessionAtEntry = session0,
                       !.radioAtEntry = radioUp]
       /\ UNCHANGED <<bleVars, conVars, btnVars, pwrVars>>

(* The environment: the radio loses the network or finds it again (the     *)
(* ESP32 reconnects by itself once WiFi.begin was called), and the broker  *)
(* or the socket drops the session.                                        *)
RadioDrops ==
    /\ radioUp
    /\ radioUp' = FALSE
    /\ UNCHANGED <<now, clientConnected, wifiConnected, wifiRetryCount,
                   lastWifiRetryTime, mqttConnected, mqttRetryCount,
                   lastMqttRetryTime, wasMQTTConnected, mqttFailStreak, netOp,
                   bleVars, conVars, btnVars, pwrVars>>

RadioReconnects ==
    /\ ~radioUp
    /\ netOp.op # "none"
    /\ ~netOp.wifiDisconnect
    /\ radioUp' = TRUE
    /\ UNCHANGED <<now, clientConnected, wifiConnected, wifiRetryCount,
                   lastWifiRetryTime, mqttConnected, mqttRetryCount,
                   lastMqttRetryTime, wasMQTTConnected, mqttFailStreak, netOp,
                   bleVars, conVars, btnVars, pwrVars>>

SessionDrops ==
    /\ clientConnected
    /\ clientConnected' = FALSE
    /\ UNCHANGED <<now, radioUp, wifiConnected, wifiRetryCount,
                   lastWifiRetryTime, mqttConnected, mqttRetryCount,
                   lastMqttRetryTime, wasMQTTConnected, mqttFailStreak, netOp,
                   bleVars, conVars, btnVars, pwrVars>>

NetEnv == RadioDrops \/ RadioReconnects \/ SessionDrops

NetInputs == BOOLEAN \X {0, TimeStep, WIFI_CONNECT_TIMEOUT} \X BOOLEAN \X MqttWaits

(***************************************************************************)
(* Recovery.  The supervisor in any state it can be left in, and from then *)
(* on a network and a broker that accept: every attempt reaches a network  *)
(* that takes it at once, the radio is not lost again, and a socket whose  *)
(* radio is down is found dead.  maintainConnections reads the clock only  *)
(* through millis() - stamp, so the passing of TimeStep is written as both *)
(* stamps growing TimeStep older; ages from MaxAge on are not told apart.  *)
(***************************************************************************)
MaxAge == 2 * TimeStep

StampOfAge(age) == USub(0, age)

HealInit ==
    /\ now = 0
    /\ radioUp \in BOOLEAN
    /\ clientConnected \in BOOLEAN
    /\ wifiConnected \in BOOLEAN
    /\ mqttConnected \in BOOLEAN
    /\ wasMQTTConnected \in BOOLEAN
    /\ wifiRetryCount \in 0..MaxRetryCount
    /\ mqttRetryCount \in 0..MaxRetryCount
    /\ lastWifiRetryTime \in
          {StampOfAge(0), StampOfAge(TimeStep), StampOfAge(MaxAge),
           UAdd(USub(0, CONNECTION_RETRY_INTERVAL), WIFI_COOLDOWN_EXTRA)}
    /\ lastMqttRetryTime \in
          {StampOfAge(0), StampOfAge(TimeStep), StampOfAge(MaxAge)}
    /\ mqttFailStreak = 0
    /\ netOp = NoNetOp

Aged(stamp) ==
    LET age == USub(now, stamp)
    IN  IF age >= MaxAge /\ age < ULongModulus \div 2 THEN stamp
        ELSE USub(stamp, TimeStep)

TimePasses ==
    /\ <<Aged(lastWifiRetryTime), Aged(lastMqttRetryTime)>>
          # <<lastWifiRetryTime, lastMqttRetryTime>>
    /\ lastWifiRetryTime' = Aged(lastWifiRetryTime)
    /\ lastMqttRetryTime' = Aged(lastMqttRetryTime)
    /\ UNCHANGED <<now, radioUp, clientConnected, wifiConnected, wifiRetryCount,
                   mqttConnected, mqttRetryCount, wasMQTTConnected,
                   mqttFailStreak, netOp, bleVars, conVars, btnVars, pwrVars>>

(* A tick whose link attempt, if it makes one, finds the network, and whose *)
(* session attempt, if it makes one, finds the broker accepting.           *)
AcceptingTick ==
    \E i \in NetInputs :
        /\ i[2] = 0 /\ i[4] = 0
        /\ maintainConnections(i[1], i[2], i[3], i[4])
        /\ netOp'.wifiAttempt => i[1]
        /\ netOp'.mqttAttempt => i[3]

StaleSessionDrops == ~radioUp /\ SessionDrops

HealNext ==
    \/ AcceptingTick
    \/ TimePasses
    \/ StaleSessionDrops
    \/ RadioReconnects

(* The supervisor as the firmware drives it: initialize once, then ticks. *)
LoopNext ==
    \/ /\ netOp.op = "none"
       /\ \E i \in NetInputs : initialize(i[1], i[2], i[3], i[4])
    \/ /\ netOp.op # "none"
       /\ \E i \in NetInputs : maintainConnections(i[1], i[2], i[3], i[4])
    \/ NetEnv
    \/ Tick

(* The supervisor with every public method callable at any time, watched  *)
(* up to MaxDirectTime.                                                    *)
NetNext ==
    /\ \/ \E i \in NetInputs : initialize(i[1], i[2], i[3], i[4])
       \/ \E i \in NetInputs : maintainConnections(i[1], i[2], i[3], i[4])
       \/ \E up \in BOOLEAN, wait \in {0, TimeStep, WIFI_CONNECT_TIMEOUT} :
             connectToWiFi(up, wait)
       \/ \E ok \in BOOLEAN, wait \in MqttWaits : connectToMQTT(ok, wait)
       \/ NetEnv
       \/ Tick
    /\ now' <= MaxDirectTime

(***************************************************************************)
(* ConsultationManager                                                     *)
(***************************************************************************)
CONSULT_STATUS_PENDING == "pending"

CONSULT_STATUS_ACCEPTED == "accepted"

CONSULT_STATUS_STARTED == "started"

CONSULT_STATUS_COMPLETED == "completed"

CONSULT_STATUS_CANCELLED == "cancelled"

CONSULT_STATUS_REJECTED == "rejected"

CONSULT_STATUS_UNKNOWN == "unknown"

CONSULT_ACTION_ACCEPT == "accepted"

CONSULT_ACTION_REJECT == "rejected_by_faculty"

CONSULT_ACTION_START == "started"

CONSULT_ACTION_COMPLETE == "completed"

CONSULT_ACTION_CANCEL == "cancelled_by_faculty"

(* faculty_constants.h:46 *)
FACULTY_ID == "F12345"

(* A JSON member: absent, a string or a number. *)
Absent == [kind |-> "absent", s |-> "", n |-> 0]

Str(x) == [kind |-> "string", s |-> x, n |-> 0]

Num(x) == [kind |-> "number", s |-> "", n |-> x]

(* doc[key] read as const char*: the string, or NULL for anything else. *)
AsCString(member) ==
    IF member.kind = "string" THEN [null |-> FALSE, s |-> member.s]
    ELSE [null |-> TRUE, s |-> ""]

(* The number a text spells, 0 when it spells none. *)
ParseNumber(text) == IF text = "2" THEN 2 ELSE 0

(* doc[key] read as long: the number, the number a string spells, or 0. *)
AsLong(member) ==
    IF member.kind = "number" THEN member.n
    ELSE IF member.kind = "string" THEN ParseNumber(member.s)
    ELSE 0

(* doc[key] read as bool: a number is true unless 0, a string is true. *)
AsBool(member) ==
    IF member.kind = "number" THEN member.n # 0 ELSE member.kind = "string"

(* a | b on two members (line 76): a unless it is null, then b.  The       *)
(* library decides "null" either by the member being absent or by reading  *)
(* it as bool, depending on its release; leftTestsTruth selects the second.*)
OrElse(a, b, leftTestsTruth) ==
    IF leftTestsTruth
    THEN IF AsBool(a) THEN a ELSE b
    ELSE IF a.kind # "absent" THEN a ELSE b

(* The releases of the library that tell a payload apart. *)
OrFlavours(payload) ==
    IF AsBool(payload.consultation_id) = (payload.consultation_id.kind # "absent")
       \/ payload.id.kind = "absent"
    THEN {FALSE} ELSE BOOLEAN

LONG_STUDENT_NAME ==
    "Maria Clara Esperanza de los Santos y Alonso Realonda-Mercado"

LONG_STUDENT_NAME_49 ==
    "Maria Clara Esperanza de los Santos y Alonso Real"

(* strncpy into char[50] with the terminator forced at index 49 *)
(* (lines 87-88): at most 49 characters are kept.               *)
CopyStudentName(name) ==
    IF name = LONG_STUDENT_NAME THEN LONG_STUDENT_NAME_49 ELSE name

NoPayload == [parses |-> FALSE, faculty_id |-> Absent,
              consultation_id |-> Absent, id |-> Absent,
              student_name |-> Absent, consultation_status |-> Absent,
              message |-> Absent, request_message |-> Absent]

BasePayload == [parses |-> TRUE, faculty_id |-> Str(FACULTY_ID),
                consultation_id |-> Num(1), id |-> Absent,
                student_name |-> Str("Ana"),
                consultation_status |-> Str(CONSULT_STATUS_PENDING),
                message |-> Str("Need help"), request_message |-> Absent]

FacultyIdMembers == {Absent, Str(FACULTY_ID), Str("F99999"), Num(7)}

IdMembers == {Absent, Num(0), Num(1), Num(2)}

OddIdMembers == {Num(-3), Str("2"), Str("abc")}

StatusMembers ==
    {Absent, Str("bogus"), Str("Pending")} \cup
    {Str(x) : x \in {CONSULT_STATUS_PENDING, CONSULT_STATUS_ACCEPTED,
                     CONSULT_STATUS_STARTED, CONSULT_STATUS_COMPLETED,
                     CONSULT_STATUS_CANCELLED, CONSULT_STATUS_REJECTED,
                     CONSULT_STATUS_UNKNOWN}}

NameMembers == {Absent, Str("Ana"), Str(LONG_STUDENT_NAME)}

MessageMembers == {Absent, Str("Need help")}

(* The request payloads the model feeds in: the base request with its      *)
(* addressing and id members varied, with its id and status varied, with   *)
(* its name varied and with its message members varied; and one text that  *)
(* is not JSON.                                                            *)
Payloads ==
    {NoPayload}
    \cup {[BasePayload EXCEPT !.faculty_id = f, !.consultation_id = c, !.id = i] :
            f \in FacultyIdMembers, c \in IdMembers, i \in IdMembers}
    \cup {[BasePayload EXCEPT !.consultation_id = c, !.consultation_status = st] :
            c \in {Num(1), Num(2)}, st \in StatusMembers}
    \cup {[BasePayload EXCEPT !.consultation_id = c, !.id = i] :
            c \in OddIdMembers, i \in {Absent, Num(2)}}
    \cup {[BasePayload EXCEPT !.student_name = nm] : nm \in NameMembers}
    \cup {[BasePayload EXCEPT !.message = m, !.request_message = r] :
            m \in MessageMembers, r \in {Absent, Str("Please call")}}

NoConOp == [op |-> "none", called |-> "none", ret |-> FALSE,
            published |-> <<>>, publishCalled |-> FALSE, publishRet |-> FALSE,
            notices |-> <<>>, payload |-> NoPayload,
            beforeId |-> -1, beforeStatus |-> CONSULT_STATUS_UNKNOWN,
            slotChanged |-> FALSE,
            acceptPressed |-> FALSE, rejectPressed |-> FALSE,
            session |-> FALSE, clientResult |-> FALSE]

ConInit ==
    /\ currentConsultationId = -1
    /\ currentConsultationStatus = CONSULT_STATUS_UNKNOWN
    /\ currentStudentName = ""
    /\ currentRequestMessage = ""
    /\ pendingRequest = FALSE
    /\ conOp = NoConOp

slot == <<currentConsultationId, currentConsultationStatus,
          currentStudentName, currentRequestMessage, pendingRequest>>

hasPendingRequest == pendingRequest /\ currentConsultationId > 0

(* isValidConsultationStatus accepting any text. *)
isValidConsultationStatusAnyText(status) == TRUE

(* isValidConsultationStatus knowing the five statuses of a consultation's *)
(* life only.                                                              *)
isValidConsultationStatusFiveValues(status) ==
    \/ status = CONSULT_STATUS_PENDING
    \/ status = CONSULT_STATUS_ACCEPTED
    \/ status = CONSULT_STATUS_STARTED
    \/ status = CONSULT_STATUS_COMPLETED
    \/ status = CONSULT_STATUS_CANCELLED

(* isValidConsultationStatus, lines 150-158 *)
isValidConsultationStatus(status) ==
    \/ status = CONSULT_STATUS_PENDING
    \/ status = CONSULT_STATUS_ACCEPTED
    \/ status = CONSULT_STATUS_STARTED
    \/ status = CONSULT_STATUS_COMPLETED
    \/ status = CONSULT_STATUS_CANCELLED
    \/ status = CONSULT_STATUS_REJECTED
    \/ status = CONSULT_STATUS_UNKNOWN

(* processConsultationRequest, lines 57-143, as a function of the payload: *)
(* the slot it leaves, its return value and the notices it raises.         *)
ProcessOutcome(payload, leftTestsTruth) ==
    LET target == AsCString(payload.faculty_id)
        consultationId == AsLong(OrElse(payload.consultation_id, payload.id,
                                        leftTestsTruth))
        name == AsCString(payload.student_name)
        status == AsCString(payload.consultation_status)
        requestMsg == IF payload.message.kind # "absent"
                      THEN AsCString(payload.message)
                      ELSE IF payload.request_message.kind # "absent"
                      THEN AsCString(payload.request_message)
                      ELSE [null |-> TRUE, s |-> ""]
        statusValid == ~status.null /\ isValidConsultationStatus(status.s)
        kept == [ret |-> FALSE, id |-> currentConsultationId,
                 status |-> currentConsultationStatus,
                 name |-> currentStudentName,
                 message |-> currentRequestMessage,
                 pending |-> pendingRequest, notices |-> <<>>]
    IN  IF ~payload.parses THEN kept
        ELSE IF ~target.null /\ target.s # FACULTY_ID THEN kept
        ELSE IF consultationId <= 0 THEN kept
        ELSE [ret |-> TRUE,
              id |-> consultationId,
              status |-> IF status.null THEN CONSULT_STATUS_PENDING
                         ELSE IF statusValid THEN status.s
                         ELSE CONSULT_STATUS_UNKNOWN,
              name |-> IF name.null THEN "Unknown Student"
                       ELSE CopyStudentName(name.s),
              message |-> IF requestMsg.null THEN "No message provided"
                          ELSE requestMsg.s,
              pending |-> TRUE,
              notices |-> (IF ~status.null /\ ~statusValid
                           THEN <<"Invalid status received">> ELSE <<>>)
                          \o <<"New consultation request received">>]

(* processConsultationRequest that surfaces a payload it cannot use: the   *)
(* status is forced to unknown and a notice is raised.                     *)
processConsultationRequestSurfacing(payload, leftTestsTruth) ==
    /\ LET new == ProcessOutcome(payload, leftTestsTruth)
           target == AsCString(payload.faculty_id)
           other == payload.parses /\ ~target.null /\ target.s # FACULTY_ID
           r == IF ~new.ret /\ ~other
                THEN [new EXCEPT !.status = CONSULT_STATUS_UNKNOWN,
                                 !.notices = <<"Invalid request received">>]
                ELSE new
       IN /\ currentConsultationId' = r.id
          /\ currentConsultationStatus' = r.status
          /\ currentStudentName' = r.name
          /\ currentRequestMessage' = r.message
          /\ pendingRequest' = r.pending
          /\ conOp' = [NoConOp EXCEPT !.op = "processConsultationRequest",
                                      !.ret = r.ret, !.notices = r.notices,
                                      !.payload = payload,
                                      !.beforeId = currentConsultationId,
                                      !.beforeStatus = currentConsultationStatus,
                                      !.slotChanged =
                                          (<<r.id, r.status, r.name, r.message,
                                             r.pending>> # slot)]
    /\ UNCHANGED <<now, bleVars, netVars, btnVars, pwrVars>>

(* processConsultationRequest that leaves a started consultation in the    *)
(* slot.                                                                   *)
processConsultationRequestKeepsStarted(payload, leftTestsTruth) ==
    /\ LET new == ProcessOutcome(payload, leftTestsTruth)
           keep == new.ret /\ currentConsultationStatus = CONSULT_STATUS_STARTED
           r == IF keep
                THEN [new EXCEPT !.id = currentConsultationId,
                                 !.status = currentConsultationStatus,
                                 !.name = currentStudentName,
                                 !.message = currentRequestMessage]
                ELSE new
       IN /\ currentConsultationId' = r.id
          /\ currentConsultationStatus' = r.status
          /\ currentStudentName' = r.name
          /\ currentRequestMessage' = r.message
          /\ pendingRequest' = r.pending
          /\ conOp' = [NoConOp EXCEPT !.op = "processConsultationRequest",
                                      !.ret = r.ret, !.notices = r.notices,
                                      !.payload = payload,
                                      !.beforeId = currentConsultationId,
                                      !.beforeStatus = currentConsultationStatus,
                                      !.slotChanged =
                                          (<<r.id, r.status, r.name, r.message,
                                             r.pending>> # slot)]
    /\ UNCHANGED <<now, bleVars, netVars, btnVars, pwrVars>>

(* processConsultationRequest raising the pending flag before it looks at  *)
(* the recipient and the id.                                               *)
processConsultationRequestFlagFirst(payload, leftTestsTruth) ==
    /\ LET new == ProcessOutcome(payload, leftTestsTruth)
           r == IF payload.parses THEN [new EXCEPT !.pending = TRUE] ELSE new
       IN /\ currentConsultationId' = r.id
          /\ currentConsultationStatus' = r.status
          /\ currentStudentName' = r.name
          /\ currentRequestMessage' = r.message
          /\ pendingRequest' = r.pending
          /\ conOp' = [NoConOp EXCEPT !.op = "processConsultationRequest",
                                      !.ret = r.ret, !.notices = r.notices,
                                      !.payload = payload,
                                      !.beforeId = currentConsultationId,
                                      !.beforeStatus = currentConsultationStatus,
                                      !.slotChanged =
                                          (<<r.id, r.status, r.name, r.message,
                                             r.pending>> # slot)]
    /\ UNCHANGED <<now, bleVars, netVars, btnVars, pwrVars>>

(* processConsultationRequest storing unknown for a status that is absent. *)
processConsultationRequestUnknownDefault(payload, leftTestsTruth) ==
    /\ LET new == ProcessOutcome(payload, leftTestsTruth)
           r == IF new.ret /\ AsCString(payload.consultation_status).null
                THEN [new EXCEPT !.status = CONSULT_STATUS_UNKNOWN]
                ELSE new
       IN /\ currentConsultationId' = r.id
          /\ currentConsultationStatus' = r.status
          /\ currentStudentName' = r.name
          /\ currentRequestMessage' = r.message
          /\ pendingRequest' = r.pending
          /\ conOp' = [NoConOp EXCEPT !.op = "processConsultationRequest",
                                      !.ret = r.ret, !.notices = r.notices,
                                      !.payload = payload,
                                      !.beforeId = currentConsultationId,
                                      !.beforeStatus = currentConsultationStatus,
                                      !.slotChanged =
                                          (<<r.id, r.status, r.name, r.message,
                                             r.pending>> # slot)]
    /\ UNCHANGED <<now, bleVars, netVars, btnVars, pwrVars>>

processConsultationRequest(payload, leftTestsTruth) ==
    /\ LET r == ProcessOutcome(payload, leftTestsTruth)
       IN /\ currentConsultationId' = r.id
          /\ currentConsultationStatus' = r.status
          /\ currentStudentName' = r.name
          /\ currentRequestMessage' = r.message
          /\ pendingRequest' = r.pending
          /\ conOp' = [NoConOp EXCEPT !.op = "processConsultationRequest",
                                      !.ret = r.ret, !.notices = r.notices,
                                      !.payload = payload,
                                      !.beforeId = currentConsultationId,
                                      !.beforeStatus = currentConsultationStatus,
                                      !.slotChanged =
                                          (<<r.id, r.status, r.name, r.message,
                                             r.pending>> # slot)]
    /\ UNCHANGED <<now, bleVars, netVars, btnVars, pwrVars>>

(* publishMessage handing every message to the client. *)
PublishMessageUnguarded(session, message, clientResult) ==
    [ret |-> clientResult, sent |-> <<message>>]

(* publishMessage, lines 493-509: nothing reaches the client unless the    *)
(* session flag is up; then the client's result is the result.             *)
PublishMessage(session, message, clientResult) ==
    IF ~session THEN [ret |-> FALSE, sent |-> <<>>]
    ELSE [ret |-> clientResult, sent |-> <<message>>]

(* publishConsultationResponse, lines 568-579 *)
publishConsultationResponse(consultationId, action, clientResult) ==
    IF consultationId <= 0 THEN [ret |-> FALSE, sent |-> <<>>]
    ELSE PublishMessage(mqttConnected,
                        [topic |-> topicResponse, action |-> action,
                         consultation_id |-> consultationId,
                         qos |-> 1, retain |-> FALSE],
                        clientResult)

(* The first test of each action: the slot is filled and in the status the *)
(* action starts from (lines 165, 197, 221, 253, 277-279).                 *)
AcceptAllowed(id, status) == ~(id <= 0 \/ status # CONSULT_STATUS_PENDING)

RejectAllowed(id, status) == ~(id <= 0 \/ status # CONSULT_STATUS_PENDING)

(* StartAllowed without the test of the status. *)
StartAllowedAnyStatus(id, status) == ~(id <= 0)

StartAllowed(id, status) == ~(id <= 0 \/ status # CONSULT_STATUS_ACCEPTED)

CompleteAllowed(id, status) == ~(id <= 0 \/ status # CONSULT_STATUS_STARTED)

CancelAllowed(id, status) ==
    ~(id <= 0 \/ (status # CONSULT_STATUS_ACCEPTED /\ status # CONSULT_STATUS_STARTED))

Actions == {"acceptConsultation", "rejectConsultation", "startConsultation",
            "completeConsultation", "cancelConsultation"}

Allowed(action, id, status) ==
    CASE action = "acceptConsultation" -> AcceptAllowed(id, status)
      [] action = "rejectConsultation" -> RejectAllowed(id, status)
      [] action = "startConsultation" -> StartAllowed(id, status)
      [] action = "completeConsultation" -> CompleteAllowed(id, status)
      [] action = "cancelConsultation" -> CancelAllowed(id, status)

(* Keyword sending the status names for reject and cancel. *)
KeywordOfStatus(action) ==
    CASE action = "acceptConsultation" -> CONSULT_STATUS_ACCEPTED
      [] action = "rejectConsultation" -> CONSULT_STATUS_REJECTED
      [] action = "startConsultation" -> CONSULT_STATUS_STARTED
      [] action = "completeConsultation" -> CONSULT_STATUS_COMPLETED
      [] action = "cancelConsultation" -> CONSULT_STATUS_CANCELLED

Keyword(action) ==
    CASE action = "acceptConsultation" -> CONSULT_ACTION_ACCEPT
      [] action = "rejectConsultation" -> CONSULT_ACTION_REJECT
      [] action = "startConsultation" -> CONSULT_ACTION_START
      [] action = "completeConsultation" -> CONSULT_ACTION_COMPLETE
      [] action = "cancelConsultation" -> CONSULT_ACTION_CANCEL

RefusedNotice(action) ==
    CASE action = "acceptConsultation" -> "No pending request to accept"
      [] action = "rejectConsultation" -> "No pending request to reject"
      [] action = "startConsultation" -> "No accepted request to start"
      [] action = "completeConsultation" -> "No active consultation to complete"
      [] action = "cancelConsultation" -> "No consultation to cancel"

FailedNotice(action) ==
    CASE action = "acceptConsultation" -> "Failed to accept request"
      [] action = "rejectConsultation" -> "Failed to reject request"
      [] action = "startConsultation" -> "Failed to start consultation"
      [] action = "completeConsultation" -> "Failed to complete consultation"
      [] action = "cancelConsultation" -> "Failed to cancel consultation"

DoneNotice(action) ==
    CASE action = "acceptConsultation" -> "Request accepted"
      [] action = "rejectConsultation" -> "Request rejected"
      [] action = "startConsultation" -> "Consultation started"
      [] action = "completeConsultation" -> "Consultation completed"
      [] action = "cancelConsultation" -> "Consultation cancelled"

(* resetConsultation without the clearing of the student name. *)
resetConsultationKeepsName ==
    [id |-> -1, status |-> CONSULT_STATUS_UNKNOWN, name |-> currentStudentName,
     message |-> "", pending |-> FALSE]

(* resetConsultation without the lowering of the pending flag. *)
resetConsultationKeepsPending ==
    [id |-> -1, status |-> CONSULT_STATUS_UNKNOWN, name |-> "",
     message |-> "", pending |-> pendingRequest]

(* resetConsultation, lines 301-307 *)
resetConsultation ==
    [id |-> -1, status |-> CONSULT_STATUS_UNKNOWN, name |-> "",
     message |-> "", pending |-> FALSE]

(* Delivered clearing the request message when the request is accepted. *)
DeliveredClearsMessage(action) ==
    LET here == [id |-> currentConsultationId,
                 status |-> currentConsultationStatus,
                 name |-> currentStudentName,
                 message |-> currentRequestMessage,
                 pending |-> pendingRequest]
    IN  CASE action = "acceptConsultation" ->
               [here EXCEPT !.status = CONSULT_STATUS_ACCEPTED, !.message = ""]
          [] action = "startConsultation" ->
               [here EXCEPT !.status = CONSULT_STATUS_STARTED]
          [] OTHER -> resetConsultation

(* What a delivered response does to the slot: accept and start move the   *)
(* status (lines 173, 229), the other three clear the slot (206, 262, 288).*)
Delivered(action) ==
    LET here == [id |-> currentConsultationId,
                 status |-> currentConsultationStatus,
                 name |-> currentStudentName,
                 message |-> currentRequestMessage,
                 pending |-> pendingRequest]
    IN  CASE action = "acceptConsultation" ->
               [here EXCEPT !.status = CONSULT_STATUS_ACCEPTED]
          [] action = "startConsultation" ->
               [here EXCEPT !.status = CONSULT_STATUS_STARTED]
          [] OTHER -> resetConsultation

(* Advances without the test of the publish result. *)
AdvancesAlways(result) == TRUE

(* Whether the slot moves once the response was published (the test       *)
(* "if (result)" of every action).                                          *)
Advances(result) == result

(* One of the five actions, lines 164-296. *)
ActionOutcome(action, clientResult) ==
    LET here == [id |-> currentConsultationId,
                 status |-> currentConsultationStatus,
                 name |-> currentStudentName,
                 message |-> currentRequestMessage,
                 pending |-> pendingRequest]
        p == publishConsultationResponse(currentConsultationId, Keyword(action),
                                         clientResult)
    IN  IF ~Allowed(action, currentConsultationId, currentConsultationStatus)
        THEN [ret |-> FALSE, slot |-> here, sent |-> <<>>,
              publishCalled |-> FALSE, publishRet |-> FALSE,
              clientResult |-> clientResult,
              notices |-> <<RefusedNotice(action)>>]
        ELSE [ret |-> p.ret,
              publishCalled |-> TRUE, publishRet |-> p.ret,
              clientResult |-> clientResult,
              slot |-> IF Advances(p.ret) THEN Delivered(action) ELSE here,
              sent |-> p.sent,
              notices |-> IF p.ret THEN <<DoneNotice(action)>>
                          ELSE <<FailedNotice(action)>>]

ApplyPressed(opName, called, r, acceptPressed, rejectPressed) ==
    /\ currentConsultationId' = r.slot.id
    /\ currentConsultationStatus' = r.slot.status
    /\ currentStudentName' = r.slot.name
    /\ currentRequestMessage' = r.slot.message
    /\ pendingRequest' = r.slot.pending
    /\ conOp' = [NoConOp EXCEPT !.op = opName, !.called = called,
                                !.ret = r.ret, !.published = r.sent,
                                !.publishCalled = r.publishCalled,
                                !.publishRet = r.publishRet,
                                !.notices = r.notices,
                                !.beforeId = currentConsultationId,
                                !.beforeStatus = currentConsultationStatus,
                                !.acceptPressed = acceptPressed,
                                !.rejectPressed = rejectPressed,
                                !.session = mqttConnected,
                                !.clientResult = r.clientResult,
                                !.slotChanged =
                                    (<<r.slot.id, r.slot.status, r.slot.name,
                                       r.slot.message, r.slot.pending>> # slot)]
    /\ UNCHANGED <<now, bleVars, netVars, btnVars, pwrVars>>

Apply(opName, called, r) == ApplyPressed(opName, called, r, FALSE, FALSE)

(* The client's publish fails when its connection is gone. *)
ClientPublish(transportAccepts) == transportAccepts /\ clientConnected

acceptConsultation(transportAccepts) ==
    Apply("acceptConsultation", "acceptConsultation",
          ActionOutcome("acceptConsultation", ClientPublish(transportAccepts)))

rejectConsultation(transportAccepts) ==
    Apply("rejectConsultation", "rejectConsultation",
          ActionOutcome("rejectConsultation", ClientPublish(transportAccepts)))

startConsultation(transportAccepts) ==
    Apply("startConsultation", "startConsultation",
          ActionOutcome("startConsultation", ClientPublish(transportAccepts)))

completeConsultation(transportAccepts) ==
    Apply("completeConsultation", "completeConsultation",
          ActionOutcome("completeConsultation", ClientPublish(transportAccepts)))

cancelConsultation(transportAccepts) ==
    Apply("cancelConsultation", "cancelConsultation",
          ActionOutcome("cancelConsultation", ClientPublish(transportAccepts)))

(* publishFacultyStatus, lines 539-560: the status document goes through   *)
(* publishJSONMessage (its buffer holds a document this small) to          *)
(* publishMessage, retained, and the published status is shown.            *)
publishFacultyStatus(isPresent, isManual, transportAccepts) ==
    /\ LET p == PublishMessage(mqttConnected,
                               [topic |-> topicStatus, status |-> isPresent,
                                type |-> IF isManual THEN "manual" ELSE "ble",
                                faculty_id |-> FACULTY_ID,
                                qos |-> 1, retain |-> TRUE],
                               ClientPublish(transportAccepts))
       IN  conOp' = [NoConOp EXCEPT
                        !.op = "publishFacultyStatus",
                        !.called = "publishFacultyStatus",
                        !.ret = p.ret, !.published = p.sent,
                        !.publishCalled = TRUE, !.publishRet = p.ret,
                        !.session = mqttConnected,
                        !.clientResult = ClientPublish(transportAccepts),
                        !.beforeId = currentConsultationId,
                        !.beforeStatus = currentConsultationStatus,
                        !.notices =
                            <<IF isManual
                              THEN IF isPresent THEN "Status (Manual): Available"
                                   ELSE "Status (Manual): Unavailable"
                              ELSE IF isPresent THEN "Status (BLE): Available"
                                   ELSE "Status (BLE): Unavailable">>]
    /\ UNCHANGED <<now, bleVars, netVars, btnVars, pwrVars, currentConsultationId,
                   currentConsultationStatus, currentStudentName,
                   currentRequestMessage, pendingRequest>>

(* ButtonTarget without the tests of the status. *)
ButtonTargetNoStatusTest(acceptPressed, rejectPressed) ==
    IF acceptPressed
    THEN IF currentConsultationId <= 0 THEN "empty" ELSE "acceptConsultation"
    ELSE IF rejectPressed
    THEN IF currentConsultationId <= 0 THEN "empty" ELSE "rejectConsultation"
    ELSE "idle"

(* ButtonTarget without the tests of an empty slot. *)
ButtonTargetNoEmptyTest(acceptPressed, rejectPressed) ==
    IF acceptPressed
    THEN IF currentConsultationStatus = CONSULT_STATUS_PENDING
         THEN "acceptConsultation"
         ELSE IF currentConsultationStatus = CONSULT_STATUS_ACCEPTED
         THEN "startConsultation"
         ELSE IF currentConsultationStatus = CONSULT_STATUS_STARTED
         THEN "completeConsultation"
         ELSE "none"
    ELSE IF rejectPressed
    THEN IF currentConsultationStatus = CONSULT_STATUS_PENDING
         THEN "rejectConsultation"
         ELSE IF currentConsultationStatus = CONSULT_STATUS_ACCEPTED
                 \/ currentConsultationStatus = CONSULT_STATUS_STARTED
         THEN "cancelConsultation"
         ELSE "none"
    ELSE "idle"

(* handleConsultationActionButtons, lines 339-388: the action a press maps *)
(* to, "none" when the status has no action, "empty" when the slot is.     *)
ButtonTarget(acceptPressed, rejectPressed) ==
    IF acceptPressed
    THEN IF currentConsultationId <= 0 THEN "empty"
         ELSE IF currentConsultationStatus = CONSULT_STATUS_PENDING
         THEN "acceptConsultation"
         ELSE IF currentConsultationStatus = CONSULT_STATUS_ACCEPTED
         THEN "startConsultation"
         ELSE IF currentConsultationStatus = CONSULT_STATUS_STARTED
         THEN "completeConsultation"
         ELSE "none"
    ELSE IF rejectPressed
    THEN IF currentConsultationId <= 0 THEN "empty"
         ELSE IF currentConsultationStatus = CONSULT_STATUS_PENDING
         THEN "rejectConsultation"
         ELSE IF currentConsultationStatus = CONSULT_STATUS_ACCEPTED
                 \/ currentConsultationStatus = CONSULT_STATUS_STARTED
         THEN "cancelConsultation"
         ELSE "none"
    ELSE "idle"

handleConsultationActionButtons(acceptPressed, rejectPressed, transportAccepts) ==
    LET target == ButtonTarget(acceptPressed, rejectPressed)
        here == [id |-> currentConsultationId,
                 status |-> currentConsultationStatus,
                 name |-> currentStudentName,
                 message |-> currentRequestMessage,
                 pending |-> pendingRequest]
    IN  IF target \in Actions
        THEN ApplyPressed("handleConsultationActionButtons", target,
                          ActionOutcome(target, ClientPublish(transportAccepts)),
                          acceptPressed, rejectPressed)
        ELSE ApplyPressed("handleConsultationActionButtons", target,
                          [ret |-> FALSE, slot |-> here, sent |-> <<>>,
                           publishCalled |-> FALSE, publishRet |-> FALSE,
                           clientResult |-> ClientPublish(transportAccepts),
                           notices |-> IF target = "empty"
                                       THEN <<"No active consultation">>
                                       ELSE IF target = "none"
                                       THEN <<"No valid action for status">>
                                       ELSE <<>>],
                          acceptPressed, rejectPressed)

(* The session as the slot sees it: down, brought up by initialize, and    *)
(* up by its flag with the socket gone.                                    *)
ConNext ==
    \/ \E p \in Payloads : \E t \in OrFlavours(p) :
          processConsultationRequest(p, t)
    \/ \E ok \in BOOLEAN : acceptConsultation(ok)
    \/ \E ok \in BOOLEAN : rejectConsultation(ok)
    \/ \E ok \in BOOLEAN : startConsultation(ok)
    \/ \E ok \in BOOLEAN : completeConsultation(ok)
    \/ \E ok \in BOOLEAN : cancelConsultation(ok)
    \/ \E a \in BOOLEAN, r \in BOOLEAN, ok \in BOOLEAN :
          handleConsultationActionButtons(a, r, ok)
    \/ \E present \in BOOLEAN, manual \in BOOLEAN, ok \in BOOLEAN :
          publishFacultyStatus(present, manual, ok)
    \/ initialize(TRUE, 0, TRUE, 0)
    \/ SessionDrops

(***************************************************************************)
(* ButtonManager                                                           *)
(***************************************************************************)
NoBtnOp == [op |-> "none", manualOverrideBefore |-> "HIGH",
            acceptBefore |-> "HIGH", rejectBefore |-> "HIGH"]

(* The constructor, lines 46-63. *)
BtnInit ==
    /\ manualOverrideState = "HIGH"
    /\ lastManualOverrideState = "HIGH"
    /\ lastManualOverrideDebounceTime = 0
    /\ acceptState = "HIGH"
    /\ lastAcceptState = "HIGH"
    /\ lastAcceptDebounceTime = 0
    /\ rejectState = "HIGH"
    /\ lastRejectState = "HIGH"
    /\ lastRejectDebounceTime = 0
    /\ btnManualOverridePressed = FALSE
    /\ btnAcceptPressed = FALSE
    /\ btnRejectPressed = FALSE
    /\ btnOp = NoBtnOp

(* Debounce reporting a press in every update that finds the settled pin   *)
(* LOW.                                                                    *)
DebounceLevel(reading, state, lastState, lastDebounceTime, millis) ==
    LET stamp == IF reading # lastState THEN millis ELSE lastDebounceTime
        settled == USub(millis, stamp) > BUTTON_DEBOUNCE_DELAY
        changed == settled /\ reading # state
    IN [state |-> IF changed THEN reading ELSE state,
        lastState |-> reading,
        lastDebounceTime |-> stamp,
        pressed |-> settled /\ reading = "LOW"]

(* update, lines 102-119 (and the same at 124-141 and 146-163): one button *)
(* of the three, with the event flag already cleared at lines 96-98.       *)
Debounce(reading, state, lastState, lastDebounceTime, millis) ==
    LET stamp == IF reading # lastState THEN millis ELSE lastDebounceTime
        settled == USub(millis, stamp) > BUTTON_DEBOUNCE_DELAY
        changed == settled /\ reading # state
    IN [state |-> IF changed THEN reading ELSE state,
        lastState |-> reading,
        lastDebounceTime |-> stamp,
        pressed |-> changed /\ reading = "LOW"]

(* update, lines 94-165; the readings are what digitalRead returns. *)
update(manualOverrideReading, acceptReading, rejectReading) ==
    LET m == Debounce(manualOverrideReading, manualOverrideState,
                      lastManualOverrideState, lastManualOverrideDebounceTime,
                      now)
        a == Debounce(acceptReading, acceptState, lastAcceptState,
                      lastAcceptDebounceTime, now)
        r == Debounce(rejectReading, rejectState, lastRejectState,
                      lastRejectDebounceTime, now)
    IN /\ manualOverrideState' = m.state
       /\ lastManualOverrideState' = m.lastState
       /\ lastManualOverrideDebounceTime' = m.lastDebounceTime
       /\ btnManualOverridePressed' = m.pressed
       /\ acceptState' = a.state
       /\ lastAcceptState' = a.lastState
       /\ lastAcceptDebounceTime' = a.lastDebounceTime
       /\ btnAcceptPressed' = a.pressed
       /\ rejectState' = r.state
       /\ lastRejectState' = r.lastState
       /\ lastRejectDebounceTime' = r.lastDebounceTime
       /\ btnRejectPressed' = r.pressed
       /\ btnOp' = [op |-> "update",
                    manualOverrideBefore |-> manualOverrideState,
                    acceptBefore |-> acceptState,
                    rejectBefore |-> rejectState]
       /\ UNCHANGED <<now, bleVars, netVars, conVars, pwrVars>>

(* wasManualOverridePressed, wasAcceptPressed, wasRejectPressed, lines     *)
(* 171-189.                                                                *)
wasManualOverridePressed == btnManualOverridePressed

wasAcceptPressed == btnAcceptPressed

wasRejectPressed == btnRejectPressed

(* millis() between two calls of update. *)
ButtonTick ==
    /\ now + ButtonStep <= MaxButtonTime
    /\ now' = now + ButtonStep
    /\ UNCHANGED <<bleVars, netVars, conVars, btnVars, pwrVars>>

BtnNext ==
    \/ \E m \in {"HIGH", "LOW"}, a \in {"HIGH", "LOW"}, r \in {"HIGH", "LOW"} :
          update(m, a, r)
    \/ ButtonTick

(***************************************************************************)
(* PowerManager                                                            *)
(***************************************************************************)
PowerModes == {"POWER_MODE_NORMAL", "POWER_MODE_BALANCED",
               "POWER_MODE_LOW_POWER", "POWER_MODE_ULTRA_LOW"}

(* setCpuFrequencyMHz, line 102 *)
ValidFrequencies == {80, 160, 240}

NoPwrOp == [op |-> "none", frequencyMHz |-> 0, mode |-> "", ret |-> FALSE]

(* The constructor, lines 47-62. *)
PwrInit ==
    /\ currentMode = "POWER_MODE_NORMAL"
    /\ wifiPowerSavingEnabled = FALSE
    /\ pwrStack = <<>>
    /\ pwrTailCalls = FALSE
    /\ pwrOp = NoPwrOp

Frame(fn, frequencyMHz, mode) ==
    [fn |-> fn, frequencyMHz |-> frequencyMHz, mode |-> mode, pc |-> "entry"]

(* A call made from outside while no call of the manager is in progress. *)
Enter(fn, frequencyMHz, mode) ==
    /\ pwrStack = <<>>
    /\ pwrOp.op # "stack overflow"
    /\ pwrStack' = <<Frame(fn, frequencyMHz, mode)>>
    /\ UNCHANGED <<currentMode, wifiPowerSavingEnabled, pwrTailCalls, pwrOp>>
    /\ UNCHANGED <<now, bleVars, netVars, conVars, btnVars>>

(* The innermost call calls setCpuFrequencyMHz(frequencyMHz): a frame     *)
(* more, or no room for it.                                                *)
Call(frequencyMHz) ==
    IF Len(pwrStack) < MaxStackDepth
    THEN /\ pwrStack' = Append([pwrStack EXCEPT ![Len(pwrStack)].pc = "called"],
                               Frame("setCpuFrequencyMHz", frequencyMHz, ""))
         /\ UNCHANGED pwrOp
    ELSE /\ pwrOp' = [op |-> "stack overflow", frequencyMHz |-> frequencyMHz,
                      mode |-> "", ret |-> FALSE]
         /\ UNCHANGED pwrStack

(* The innermost call returns ret to its caller. *)
Return(ret) ==
    /\ pwrStack' = SubSeq(pwrStack, 1, Len(pwrStack) - 1)
    /\ LET top == pwrStack[Len(pwrStack)]
       IN pwrOp' = [op |-> top.fn, frequencyMHz |-> top.frequencyMHz,
                    mode |-> top.mode, ret |-> ret]

(* Frequency of a power mode, setPowerMode lines 190-215. *)
ModeFrequency(mode) ==
    IF mode = "POWER_MODE_NORMAL" THEN normalFrequencyMHz
    ELSE IF mode = "POWER_MODE_BALANCED" THEN balancedFrequencyMHz
    ELSE lowPowerFrequencyMHz

(* setCpuFrequencyMHz, lines 101-109: line 108 names the member itself.    *)
setCpuFrequencyMHz(frequencyMHz) ==
    /\ IF pwrStack[Len(pwrStack)].pc = "called"
       THEN Return(pwrOp.ret)
       ELSE IF frequencyMHz \notin ValidFrequencies
       THEN Return(FALSE)
       ELSE IF pwrTailCalls
       THEN UNCHANGED <<pwrStack, pwrOp>>
       ELSE Call(frequencyMHz)
    /\ UNCHANGED <<currentMode, wifiPowerSavingEnabled>>

(* setPowerMode, lines 183-216 *)
setPowerMode(mode) ==
    IF pwrStack[Len(pwrStack)].pc = "called"
    THEN /\ wifiPowerSavingEnabled' = (mode # "POWER_MODE_NORMAL")
         /\ Return(TRUE)
         /\ UNCHANGED currentMode
    ELSE IF currentMode = mode
    THEN /\ Return(TRUE)
         /\ UNCHANGED <<currentMode, wifiPowerSavingEnabled>>
    ELSE /\ currentMode' = mode
         /\ Call(ModeFrequency(mode))
         /\ UNCHANGED wifiPowerSavingEnabled

(* PowerManager::initialize, lines 68-94; the three settings of lines      *)
(* 76-88 are macros that no file of src defines and are left out.          *)
PowerInitialize ==
    /\ IF pwrStack[Len(pwrStack)].pc = "called"
       THEN Return(TRUE)
       ELSE Call(normalFrequencyMHz)
    /\ UNCHANGED <<currentMode, wifiPowerSavingEnabled>>

(* The processor runs the innermost call one step on. *)
Execute ==
    /\ pwrStack # <<>>
    /\ pwrOp.op # "stack overflow"
    /\ LET top == pwrStack[Len(pwrStack)]
       IN IF top.fn = "setCpuFrequencyMHz"
          THEN setCpuFrequencyMHz(top.frequencyMHz)
          ELSE IF top.fn = "setPowerMode" THEN setPowerMode(top.mode)
          ELSE PowerInitialize
    /\ UNCHANGED pwrTailCalls
    /\ UNCHANGED <<now, bleVars, netVars, conVars, btnVars>>

PwrNext ==
    \/ Enter("initialize", 0, "")
    \/ \E mode \in PowerModes : Enter("setPowerMode", 0, mode)
    \/ \E f \in ValidFrequencies \cup {0, 100} :
          Enter("setCpuFrequencyMHz", f, "")
    \/ Execute

(***************************************************************************)
(* Specifications                                                          *)
(***************************************************************************)
Init == now = 0 /\ BLEInit /\ NetInit /\ ConInit /\ BtnInit /\ PwrInit

(* The threshold is a build-time setting; 0 switches the test off. *)
InitBLE ==
    /\ now = 0
    /\ BLEInit!1 /\ BLEInit!2 /\ BLEInit!3 /\ BLEInit!4 /\ BLEInit!5
    /\ rssiThreshold \in {BLE_RSSI_THRESHOLD, 0}
    /\ BLEInit!7 /\ BLEInit!8
    /\ NetInit /\ ConInit /\ BtnInit /\ PwrInit

SpecBLE == InitBLE /\ [][BLENext \/ Tick]_vars

SpecNet == Init /\ [][NetNext]_vars

SpecLoop == Init /\ [][LoopNext]_vars

SpecCon == Init /\ [][ConNext]_vars

(* loop() polls the buttons and hands them to the handler on every         *)
(* iteration, pressed or not.                                              *)
LoopPollsButtons ==
    \E a \in BOOLEAN, r \in BOOLEAN, ok \in BOOLEAN :
        handleConsultationActionButtons(a, r, ok)

SpecConLoop == Init /\ [][ConNext]_vars /\ WF_vars(LoopPollsButtons)

InitHeal == HealInit /\ BLEInit /\ ConInit /\ BtnInit /\ PwrInit

(* loop() calls maintainConnections for ever, millis() keeps advancing and *)
(* the client finds out that its socket is dead.                           *)
SpecHeal ==
    /\ InitHeal
    /\ [][HealNext]_vars
    /\ WF_vars(AcceptingTick)
    /\ WF_vars(TimePasses)
    /\ WF_vars(StaleSessionDrops)

Next == BLENext \/ NetNext \/ ConNext \/ BtnNext \/ PwrNext

SpecBtn == Init /\ [][BtnNext]_vars

(* The build may or may not compile a call in return position into a     *)
(* jump.                                                                   *)
InitPwr ==
    /\ now = 0 /\ BLEInit /\ NetInit /\ ConInit /\ BtnInit
    /\ PwrInit!1 /\ PwrInit!2 /\ PwrInit!3
    /\ pwrTailCalls \in BOOLEAN
    /\ PwrInit!5

(* The processor keeps running the call in progress. *)
SpecPwr == InitPwr /\ [][PwrNext]_vars /\ WF_vars(Execute)

Spec == Init /\ [][Next]_vars

(***************************************************************************)
(* Properties                                                              *)
(***************************************************************************)

(* The status each action starts from, as the contract states it. *)
RequiredPrior(action) ==
    CASE action = "acceptConsultation" -> {CONSULT_STATUS_PENDING}
      [] action = "startConsultation" -> {CONSULT_STATUS_ACCEPTED}
      [] action = "completeConsultation" -> {CONSULT_STATUS_STARTED}
      [] action = "rejectConsultation" -> {CONSULT_STATUS_PENDING}
      [] action = "cancelConsultation" ->
             {CONSULT_STATUS_ACCEPTED, CONSULT_STATUS_STARTED}

PreconditionHeld(op) ==
    op.beforeId > 0 /\ op.beforeStatus \in RequiredPrior(op.called)

(* C1: an action whose precondition holds but whose publish returns false  *)
(* returns false and leaves the whole slot as it was, so that the same     *)
(* action is still possible.                                               *)
C1_PublishFailureHoldsSlot ==
    (/\ conOp.called \in Actions /\ PreconditionHeld(conOp)
     /\ conOp.publishCalled /\ ~conOp.publishRet)
        => /\ conOp.ret = FALSE
           /\ ~conOp.slotChanged
           /\ currentConsultationId = conOp.beforeId
           /\ currentConsultationStatus = conOp.beforeStatus
           /\ Allowed(conOp.called, currentConsultationId,
                      currentConsultationStatus)

C1_Witness ==
    /\ conOp.op = "cancelConsultation"
    /\ conOp.beforeStatus = CONSULT_STATUS_STARTED
    /\ conOp.publishCalled /\ ~conOp.publishRet
    /\ conOp.published # <<>>
    /\ conOp.notices = <<"Failed to cancel consultation">>
    /\ currentConsultationStatus = CONSULT_STATUS_STARTED

(* C2: an action called on an empty slot, or on a status other than the    *)
(* one it starts from, returns false, leaves the slot as it was and hands  *)
(* no response to the client.                                              *)
C2_RefusedActionChangesNothing ==
    (conOp.called \in Actions /\ ~PreconditionHeld(conOp))
        => /\ conOp.ret = FALSE
           /\ ~conOp.slotChanged
           /\ ~conOp.publishCalled
           /\ conOp.published = <<>>

C2_Witness ==
    /\ conOp.op = "startConsultation"
    /\ conOp.beforeId > 0
    /\ conOp.beforeStatus = CONSULT_STATUS_PENDING
    /\ currentConsultationStatus = CONSULT_STATUS_PENDING
    /\ mqttConnected /\ clientConnected
    /\ conOp.ret = FALSE

(* C3: a tick in which the session attempts that failed in a row with the  *)
(* link up reach MQTT_MAX_RETRIES forces the link down and resets both     *)
(* retry counters, so that no such run of failures outlasts a tick.        *)
C3_EscalationAfterMaxRetries ==
    /\ (netOp.op = "maintainConnections" /\ netOp.streak >= MQTT_MAX_RETRIES)
          => /\ netOp.wifiDisconnect
             /\ ~wifiConnected
             /\ wifiRetryCount = 0
             /\ mqttRetryCount = 0
    /\ mqttFailStreak < MQTT_MAX_RETRIES

C3_Witness ==
    /\ netOp.op = "maintainConnections"
    /\ netOp.streak = MQTT_MAX_RETRIES
    /\ netOp.wifiDisconnect
    /\ ~wifiConnected /\ ~radioUp
    /\ wifiRetryCount = 0 /\ mqttRetryCount = 0

(* C4: a tick that finds the session down and leaves it up subscribes the  *)
(* topic set exactly once, and a tick that finds the session up, as the    *)
(* previous tick left it, subscribes nothing.                              *)
C4_SubscribeOncePerEdge ==
    netOp.op = "maintainConnections"
        => /\ (~netOp.sessionAtEntry /\ mqttConnected) => netOp.subscribes = 1
           /\ (netOp.wasBefore /\ netOp.sessionAtEntry /\ mqttConnected)
                 => netOp.subscribes = 0

(* C5: connectToMQTT with the link flag down returns false, does not call  *)
(* the client's connect and leaves mqttConnected and mqttRetryCount alone; *)
(* a tick calls connectToMQTT only with the link flag up.                  *)
C5_NoSessionAttemptWithoutLink ==
    /\ (netOp.op = "connectToMQTT" /\ ~netOp.linkAtMqttAttempt)
          => /\ netOp.ret = FALSE
             /\ ~netOp.clientConnectCalled
             /\ netOp.subscribes = 0
             /\ mqttConnected = netOp.sessionBefore
             /\ mqttRetryCount = netOp.retryBefore
    /\ (netOp.op = "maintainConnections" /\ netOp.mqttAttempt)
          => netOp.linkAtMqttAttempt
    /\ netOp.clientConnectCalled => netOp.linkAtMqttAttempt

C5_Witness ==
    /\ netOp.op = "connectToMQTT"
    /\ ~netOp.linkAtMqttAttempt
    /\ ~wifiConnected
    /\ netOp.retryBefore > 0
    /\ radioUp

(* C6: between calls the session flag is never up while the link flag is   *)
(* down.                                                                   *)
C6_SessionImpliesLink == isMQTTConnected => isWiFiConnected

(* An advertisement that the contract counts as a sighting of the beacon. *)
Sighting(op) ==
    /\ op.address = TARGET_BLE_MAC_ADDRESS
    /\ (rssiThreshold = 0 \/ op.rssi >= rssiThreshold)

(* C7: with no override, reported presence falls only in a                 *)
(* checkFacultyTimeout call whose argument is more than                    *)
(* BLE_CONNECTION_TIMEOUT past lastBeaconSignalTime; the automatic flag    *)
(* falls in no other call, and an advertisement that is no sighting        *)
(* changes neither the flag nor lastBeaconSignalTime.                      *)
C7_AbsenceOnlyByTimeout ==
    [][ /\ (/\ ~manualOverrideActive /\ ~manualOverrideActive'
            /\ getFacultyPresence /\ ~getFacultyPresence')
              => /\ bleOp'.op = "checkFacultyTimeout"
                 /\ bleOp'.ret
                 /\ USub(bleOp'.time, lastBeaconSignalTime) > BLE_CONNECTION_TIMEOUT
                 /\ lastBeaconSignalTime' = lastBeaconSignalTime
        /\ (isFacultyPresent /\ ~isFacultyPresent')
              => bleOp'.op = "checkFacultyTimeout"
        /\ (/\ bleOp'.op = "onResult"
            /\ \/ isFacultyPresent' # isFacultyPresent
               \/ lastBeaconSignalTime' # lastBeaconSignalTime)
              => Sighting(bleOp')
        /\ lastBeaconSignalTime' # lastBeaconSignalTime
              => bleOp'.op = "onResult"
      ]_vars

C7_Witness ==
    /\ bleOp.op = "checkFacultyTimeout"
    /\ bleOp.ret /\ bleOp.presentBefore
    /\ ~manualOverrideActive
    /\ ~getFacultyPresence
    /\ USub(bleOp.time, lastBeaconSignalTime) > BLE_CONNECTION_TIMEOUT

(* C8: after a sighting received with no override active the reported      *)
(* presence is true and lastBeaconSignalTime is the time of the sighting,  *)
(* whatever the presence was before.                                       *)
C8_SightingSetsPresence ==
    (bleOp.op = "onResult" /\ ~bleOp.override /\ Sighting(bleOp))
        => /\ getFacultyPresence
           /\ isFacultyPresent
           /\ lastBeaconSignalTime = bleOp.time

C8_Witness ==
    /\ bleOp.op = "onResult" /\ ~bleOp.override /\ Sighting(bleOp)
    /\ bleOp.rssi = BLE_RSSI_THRESHOLD /\ rssiThreshold = BLE_RSSI_THRESHOLD
    /\ ~bleOp.presentBefore
    /\ bleOp.time > 0
    /\ getFacultyPresence

(* C9: while the override is active the reported presence is the override  *)
(* value.                                                                  *)
C9_OverrideDecidesReport ==
    manualOverrideActive => (getFacultyPresence = manualOverrideStatus)

C9_Witness ==
    /\ manualOverrideActive
    /\ manualOverrideStatus # isFacultyPresent
    /\ bleOp.op \in {"onResult", "checkFacultyTimeout"}
    /\ getFacultyPresence = manualOverrideStatus

(* C10 as stated: a sighting received during override sets the automatic   *)
(* presence and refreshes lastBeaconSignalTime.                            *)
C10_BookkeepingContinues ==
    (bleOp.op = "onResult" /\ bleOp.override /\ Sighting(bleOp))
        => /\ isFacultyPresent
           /\ lastBeaconSignalTime = bleOp.time

(* C10, amended: while the override is active the automatic bookkeeping is *)
(* suspended; no call made under override changes the automatic presence   *)
(* or lastBeaconSignalTime.                                                *)
C10_BookkeepingSuspended ==
    [][manualOverrideActive
          => /\ isFacultyPresent' = isFacultyPresent
             /\ lastBeaconSignalTime' = lastBeaconSignalTime]_vars

C10_Witness ==
    /\ bleOp.op = "onResult" /\ bleOp.override /\ Sighting(bleOp)
    /\ manualOverrideActive
    /\ ~isFacultyPresent
    /\ bleOp.time > lastBeaconSignalTime

(* C11: right after setManualOverride(false, _) the reported presence is   *)
(* the automatic flag as the call found it; nothing else has to happen     *)
(* first.                                                                  *)
C11_ClearingOverrideRevertsAtOnce ==
    (bleOp.op = "setManualOverride" /\ ~bleOp.active)
        => /\ ~manualOverrideActive
           /\ getFacultyPresence = isFacultyPresent
           /\ isFacultyPresent = bleOp.presentBefore

C11_Witness ==
    /\ bleOp.op = "setManualOverride" /\ ~bleOp.active
    /\ bleOp.override
    /\ bleOp.presentBefore /\ ~bleOp.status
    /\ getFacultyPresence

(* C12: a checkFacultyTimeout call returns true exactly when it finds the  *)
(* flag up, no override and its argument more than BLE_CONNECTION_TIMEOUT  *)
(* past lastBeaconSignalTime, and exactly then the flag falls; otherwise   *)
(* it changes nothing; a call right after one that returned true returns   *)
(* false.                                                                  *)
C12_TimeoutReturnsTrueOnlyOnFlip ==
    [][ (bleOp' # bleOp /\ bleOp'.op = "checkFacultyTimeout")
          => /\ bleOp'.ret =
                  (/\ isFacultyPresent
                   /\ ~manualOverrideActive
                   /\ USub(bleOp'.time, lastBeaconSignalTime)
                          > BLE_CONNECTION_TIMEOUT)
             /\ bleOp'.ret = (isFacultyPresent /\ ~isFacultyPresent')
             /\ ~bleOp'.ret => isFacultyPresent' = isFacultyPresent
             /\ UNCHANGED <<lastBeaconSignalTime, manualOverrideActive,
                            manualOverrideStatus, bleScanActive, isScanning,
                            rssiThreshold>>
             /\ (bleOp.op = "checkFacultyTimeout" /\ bleOp.ret) => ~bleOp'.ret
      ]_vars

C12_Witness ==
    /\ bleOp.op = "checkFacultyTimeout"
    /\ ~bleOp.ret /\ bleOp.presentBefore /\ ~bleOp.override
    /\ isFacultyPresent
    /\ USub(bleOp.time, lastBeaconSignalTime) = BLE_CONNECTION_TIMEOUT

(* The contract's reading of a request payload. *)
KnownStatuses ==
    {"pending", "accepted", "started", "completed", "cancelled", "rejected",
     "unknown"}

PositiveUnder(member) == member.kind = "number" /\ member.n > 0

HasPositiveId(payload) ==
    PositiveUnder(payload.consultation_id) \/ PositiveUnder(payload.id)

ForThisUnit(payload) ==
    payload.faculty_id.kind = "absent" \/ payload.faculty_id = Str("F12345")

ParsedStatus(payload) ==
    IF payload.consultation_status.kind # "string" THEN "pending"
    ELSE IF payload.consultation_status.s \in KnownStatuses
    THEN payload.consultation_status.s
    ELSE "unknown"

ParsedName(payload) ==
    IF payload.student_name.kind # "string" THEN "Unknown Student"
    ELSE IF payload.student_name.s = LONG_STUDENT_NAME
    THEN LONG_STUDENT_NAME_49
    ELSE payload.student_name.s

ParsedMessage(payload) ==
    IF payload.message.kind = "string" THEN payload.message.s
    ELSE IF payload.message.kind = "absent"
            /\ payload.request_message.kind = "string"
    THEN payload.request_message.s
    ELSE "No message provided"

ActionsAndButtons == Actions \cup {"handleConsultationActionButtons"}

(* C13: a processConsultationRequest call that succeeds leaves in the slot *)
(* the id, status, name and message of its payload and the pending flag,   *)
(* whatever request and status the slot held before.                       *)
C13_IngestOverwritesSlot ==
    (conOp.op = "processConsultationRequest" /\ conOp.ret)
        => /\ currentConsultationId > 0
           /\ currentConsultationId \in {AsLong(conOp.payload.consultation_id),
                                         AsLong(conOp.payload.id)}
           /\ currentConsultationStatus = ParsedStatus(conOp.payload)
           /\ currentStudentName = ParsedName(conOp.payload)
           /\ currentRequestMessage = ParsedMessage(conOp.payload)
           /\ pendingRequest
           /\ hasPendingRequest

C13_Witness ==
    /\ conOp.op = "processConsultationRequest" /\ conOp.ret
    /\ conOp.beforeStatus = CONSULT_STATUS_STARTED
    /\ conOp.beforeId = 1
    /\ currentConsultationId = 2
    /\ currentConsultationStatus = CONSULT_STATUS_PENDING
    /\ conOp.slotChanged

(* C14: a request for this unit with a positive id and a status text that  *)
(* is no known status is stored with status unknown and a notice; while    *)
(* the status is unknown no action and no button event changes the slot or *)
(* publishes.                                                              *)
C14_UnknownStatusStoredAndInert ==
    /\ (/\ conOp.op = "processConsultationRequest"
        /\ conOp.payload.parses
        /\ ForThisUnit(conOp.payload)
        /\ PositiveUnder(conOp.payload.consultation_id)
        /\ conOp.payload.consultation_status.kind = "string"
        /\ conOp.payload.consultation_status.s \notin KnownStatuses)
          => /\ conOp.ret
             /\ currentConsultationId = conOp.payload.consultation_id.n
             /\ currentConsultationStatus = "unknown"
             /\ currentStudentName = ParsedName(conOp.payload)
             /\ currentRequestMessage = ParsedMessage(conOp.payload)
             /\ \E i \in DOMAIN conOp.notices :
                    conOp.notices[i] = "Invalid status received"
    /\ (conOp.op \in ActionsAndButtons /\ conOp.beforeStatus = "unknown")
          => /\ conOp.ret = FALSE
             /\ ~conOp.slotChanged
             /\ ~conOp.publishCalled
             /\ conOp.published = <<>>
             /\ currentConsultationStatus = "unknown"

C14_Witness ==
    /\ conOp.op = "handleConsultationActionButtons"
    /\ conOp.acceptPressed
    /\ conOp.beforeStatus = "unknown" /\ conOp.beforeId = 2
    /\ currentConsultationId = 2 /\ pendingRequest
    /\ mqttConnected /\ clientConnected

(* C15 as stated: a payload that does not parse, or that is for this unit  *)
(* and has no positive id, is surfaced in the slot with status unknown and *)
(* a notice.                                                               *)
C15_MalformedPayloadSurfaced ==
    (/\ conOp.op = "processConsultationRequest"
     /\ \/ ~conOp.payload.parses
        \/ ForThisUnit(conOp.payload) /\ ~HasPositiveId(conOp.payload))
        => /\ currentConsultationStatus = "unknown"
           /\ conOp.notices # <<>>

(* C15, amended: a payload that does not parse, or that is for this unit   *)
(* and carries under neither alias a value that reads as a positive        *)
(* number, is rejected: the call returns false, leaves the slot as it was  *)
(* and raises no notice.                                                   *)
C15_MalformedPayloadRejected ==
    (/\ conOp.op = "processConsultationRequest"
     /\ \/ ~conOp.payload.parses
        \/ /\ ForThisUnit(conOp.payload)
           /\ AsLong(conOp.payload.consultation_id) <= 0
           /\ AsLong(conOp.payload.id) <= 0)
        => /\ conOp.ret = FALSE
           /\ ~conOp.slotChanged
           /\ currentConsultationId = conOp.beforeId
           /\ currentConsultationStatus = conOp.beforeStatus
           /\ conOp.notices = <<>>

C15_Witness ==
    /\ conOp.op = "processConsultationRequest"
    /\ ~conOp.payload.parses
    /\ conOp.beforeId = 2 /\ conOp.beforeStatus = CONSULT_STATUS_ACCEPTED
    /\ currentConsultationStatus = CONSULT_STATUS_ACCEPTED
    /\ conOp.notices = <<>>

(* C16: a payload whose faculty_id is present, as a string or as a number, *)
(* and is not the local FACULTY_ID changes nothing in the slot, raises no  *)
(* notice and returns false.                                               *)
C16_OtherRecipientIgnored ==
    (/\ conOp.op = "processConsultationRequest"
     /\ conOp.payload.parses
     /\ conOp.payload.faculty_id.kind # "absent"
     /\ conOp.payload.faculty_id # Str("F12345"))
        => /\ conOp.ret = FALSE
           /\ ~conOp.slotChanged
           /\ conOp.notices = <<>>

(* C17: a parsed payload for this unit is accepted exactly when a positive *)
(* integer is present under consultation_id or under id; otherwise the     *)
(* call returns false and the slot is unchanged.                           *)
C17_IdUnderEitherAlias ==
    (/\ conOp.op = "processConsultationRequest"
     /\ conOp.payload.parses
     /\ ForThisUnit(conOp.payload))
        => /\ conOp.ret = HasPositiveId(conOp.payload)
           /\ ~HasPositiveId(conOp.payload) => ~conOp.slotChanged

(* C18: after a successful reject, complete or cancel the slot is empty    *)
(* (id -1, status unknown, name and message cleared, nothing pending), and *)
(* on an empty slot every action and button event fails.                   *)
C18_TerminalActionClearsSlot ==
    /\ (conOp.called \in {"rejectConsultation", "completeConsultation",
                          "cancelConsultation"} /\ conOp.ret)
          => /\ currentConsultationId = -1
             /\ currentConsultationStatus = "unknown"
             /\ currentStudentName = ""
             /\ currentRequestMessage = ""
             /\ ~pendingRequest
             /\ ~hasPendingRequest
    /\ (conOp.op \in ActionsAndButtons /\ conOp.beforeId = -1)
          => /\ conOp.ret = FALSE
             /\ currentConsultationId = -1
             /\ conOp.published = <<>>

C18_Witness ==
    /\ conOp.called = "completeConsultation" /\ conOp.ret
    /\ conOp.beforeStatus = CONSULT_STATUS_STARTED /\ conOp.beforeId > 0
    /\ conOp.slotChanged
    /\ currentConsultationId = -1

(* The keyword the contract gives each action. *)
ContractKeyword(action) ==
    CASE action = "acceptConsultation" -> "accepted"
      [] action = "rejectConsultation" -> "rejected_by_faculty"
      [] action = "startConsultation" -> "started"
      [] action = "completeConsultation" -> "completed"
      [] action = "cancelConsultation" -> "cancelled_by_faculty"

(* C19: a successful action publishes exactly one message, on the response *)
(* topic, not retained, carrying the id the slot held at the call and the  *)
(* keyword of the action.                                                  *)
C19_OneResponsePerAction ==
    (conOp.called \in Actions /\ conOp.ret)
        => /\ Len(conOp.published) = 1
           /\ conOp.published[1].topic = topicResponse
           /\ conOp.published[1].retain = FALSE
           /\ conOp.published[1].consultation_id = conOp.beforeId
           /\ conOp.published[1].action = ContractKeyword(conOp.called)

C19_Witness ==
    /\ conOp.op = "cancelConsultation" /\ conOp.ret
    /\ conOp.beforeId = 2
    /\ Len(conOp.published) = 1
    /\ conOp.published[1].action = "cancelled_by_faculty"
    /\ conOp.published[1].consultation_id = 2

(* The action the contract maps a button event to, "none" when it names    *)
(* no action for the status.                                               *)
ContractButton(acceptPressed, rejectPressed, status) ==
    IF acceptPressed
    THEN CASE status = "pending" -> "acceptConsultation"
           [] status = "accepted" -> "startConsultation"
           [] status = "started" -> "completeConsultation"
           [] OTHER -> "none"
    ELSE IF rejectPressed
    THEN CASE status = "pending" -> "rejectConsultation"
           [] status \in {"accepted", "started"} -> "cancelConsultation"
           [] OTHER -> "none"
    ELSE "none"

(* C20: on a filled slot a button event runs the action the status calls   *)
(* for (accept, start, complete for the primary button; reject, cancel for *)
(* the secondary), and for any other status does nothing, publishes        *)
(* nothing and returns false.                                              *)
C20_ButtonsFollowStatus ==
    (/\ conOp.op = "handleConsultationActionButtons"
     /\ conOp.beforeId > 0
     /\ conOp.acceptPressed \/ conOp.rejectPressed)
        => LET want == ContractButton(conOp.acceptPressed, conOp.rejectPressed,
                                      conOp.beforeStatus)
           IN  IF want = "none"
               THEN /\ conOp.called \notin Actions
                    /\ conOp.ret = FALSE
                    /\ ~conOp.slotChanged
                    /\ ~conOp.publishCalled
                    /\ conOp.published = <<>>
               ELSE /\ conOp.called = want
                    /\ conOp.publishCalled
                    /\ conOp.ret = conOp.publishRet
                    /\ conOp.ret => conOp.slotChanged
                    /\ conOp.published # <<>>
                          => conOp.published[1].action = ContractKeyword(want)

C20_Witness ==
    /\ conOp.op = "handleConsultationActionButtons"
    /\ conOp.rejectPressed /\ ~conOp.acceptPressed
    /\ conOp.beforeStatus = CONSULT_STATUS_STARTED /\ conOp.beforeId > 0
    /\ conOp.called = "cancelConsultation"
    /\ conOp.ret
    /\ currentConsultationId = -1

(* The statuses one action can leave behind a status: the next one, or the *)
(* unknown of an emptied slot.                                             *)
OneTransition(before) ==
    CASE before = "pending" -> {"accepted", "unknown"}
      [] before = "accepted" -> {"started", "unknown"}
      [] before = "started" -> {"unknown"}
      [] OTHER -> {}

(* C21: one handleConsultationActionButtons call honors one flag: with     *)
(* both flags set it runs what the primary button alone would run, it      *)
(* calls at most one action, publishes at most one response and moves the  *)
(* status by at most one transition; on an empty slot a press raises only  *)
(* the notice "No active consultation", changes and publishes nothing.     *)
C21_OneFlagPerCall ==
    conOp.op = "handleConsultationActionButtons"
        => /\ Len(conOp.published) <= 1
           /\ conOp.called \in Actions \cup {"empty", "none", "idle"}
           /\ conOp.slotChanged
                 => /\ conOp.called \in Actions
                    /\ currentConsultationStatus
                          \in OneTransition(conOp.beforeStatus)
           /\ currentConsultationStatus # conOp.beforeStatus
                 => conOp.slotChanged
           /\ (conOp.acceptPressed /\ conOp.rejectPressed /\ conOp.beforeId > 0)
                 => conOp.called = ContractButton(TRUE, FALSE, conOp.beforeStatus)
           /\ (conOp.beforeId <= 0 /\ (conOp.acceptPressed \/ conOp.rejectPressed))
                 => /\ conOp.notices = <<"No active consultation">>
                    /\ conOp.called \notin Actions
                    /\ ~conOp.slotChanged
                    /\ conOp.published = <<>>
                    /\ ~conOp.publishCalled
                    /\ conOp.ret = FALSE

C21_Witness ==
    /\ conOp.op = "handleConsultationActionButtons"
    /\ conOp.acceptPressed /\ conOp.rejectPressed
    /\ conOp.beforeStatus = CONSULT_STATUS_PENDING /\ conOp.beforeId > 0
    /\ conOp.called = "acceptConsultation"
    /\ conOp.ret
    /\ Len(conOp.published) = 1
    /\ currentConsultationStatus = CONSULT_STATUS_ACCEPTED

(* C27: whatever publishes (an action's response, a status update) hands   *)
(* nothing to the client and gets false while the session flag is down;    *)
(* while it is up, exactly one message reaches the client and the result   *)
(* is the client's, so a response for a positive id over a session that    *)
(* takes it returns true.                                                  *)
C27_PublishNeedsSession ==
    (conOp.publishCalled
     /\ conOp.op \in ActionsAndButtons \cup {"publishFacultyStatus"})
        => /\ ~conOp.session
                 => /\ conOp.published = <<>>
                    /\ conOp.publishRet = FALSE
                    /\ conOp.ret = FALSE
           /\ conOp.session
                 => /\ Len(conOp.published) = 1
                    /\ conOp.publishRet = conOp.clientResult
                    /\ conOp.ret = conOp.clientResult
           /\ (conOp.session /\ conOp.clientResult) => conOp.ret

C27_Witness ==
    /\ conOp.called = "acceptConsultation"
    /\ conOp.publishCalled
    /\ ~conOp.session
    /\ conOp.beforeId > 0 /\ conOp.beforeStatus = CONSULT_STATUS_PENDING
    /\ conOp.published = <<>>
    /\ conOp.ret = FALSE

(* C28: a request for this unit with a positive id whose status text is    *)
(* one of pending, accepted, started, completed, cancelled, rejected and   *)
(* unknown is stored with that status and without the invalid-status       *)
(* notice; any other status text raises the notice.                        *)
C28_SevenStatusesAccepted ==
    (/\ conOp.op = "processConsultationRequest"
     /\ conOp.payload.parses
     /\ ForThisUnit(conOp.payload)
     /\ PositiveUnder(conOp.payload.consultation_id)
     /\ conOp.payload.consultation_status.kind = "string")
        => LET text == conOp.payload.consultation_status.s
               noticed == \E i \in DOMAIN conOp.notices :
                              conOp.notices[i] = "Invalid status received"
           IN  /\ conOp.ret
               /\ text \in {"pending", "accepted", "started", "completed",
                             "cancelled", "rejected", "unknown"}
                     => (currentConsultationStatus = text /\ ~noticed)
               /\ text \notin {"pending", "accepted", "started", "completed",
                                "cancelled", "rejected", "unknown"}
                     => noticed

C28_Witness ==
    /\ conOp.op = "processConsultationRequest" /\ conOp.ret
    /\ conOp.payload.consultation_status = Str("rejected")
    /\ conOp.beforeStatus = CONSULT_STATUS_ACCEPTED
    /\ currentConsultationStatus = "rejected"
    /\ conOp.notices = <<"New consultation request received">>

(* C29: a request that is accepted gets status pending when it carries no  *)
(* status, the name "Unknown Student" when it carries no student_name, and *)
(* the message "No message provided" when it carries neither message nor   *)
(* request_message.                                                        *)
C29_DefaultsForAbsentMembers ==
    (conOp.op = "processConsultationRequest" /\ conOp.ret)
        => /\ conOp.payload.consultation_status.kind = "absent"
                 => currentConsultationStatus = "pending"
           /\ conOp.payload.student_name.kind = "absent"
                 => currentStudentName = "Unknown Student"
           /\ (/\ conOp.payload.message.kind = "absent"
               /\ conOp.payload.request_message.kind = "absent")
                 => currentRequestMessage = "No message provided"

C29_Witness ==
    /\ conOp.op = "processConsultationRequest" /\ conOp.ret
    /\ conOp.payload.consultation_status.kind = "absent"
    /\ conOp.beforeStatus = CONSULT_STATUS_STARTED
    /\ currentConsultationStatus = "pending"
    /\ currentConsultationId = 2

(* C23: a tick of maintainConnections starts a link attempt only if the    *)
(* link has never been connected or at least CONNECTION_RETRY_INTERVAL has *)
(* passed since the previous link attempt that a tick started.             *)
C23_LinkAttemptsBackOff ==
    (netOp.op = "maintainConnections" /\ netOp.wifiAttempt)
        => \/ ~netOp.linkedBefore
           \/ netOp.linkGap = -1
           \/ netOp.linkGap >= CONNECTION_RETRY_INTERVAL

(* C24: once WIFI_MAX_RETRIES link attempts have failed in a row, a tick   *)
(* starts the next link attempt only after a rest longer than              *)
(* CONNECTION_RETRY_INTERVAL since the last of them ended.                 *)
C24_CooldownAfterMaxRetries ==
    (/\ netOp.op = "maintainConnections"
     /\ netOp.wifiAttempt
     /\ netOp.linkFailsBefore >= WIFI_MAX_RETRIES)
        => netOp.linkRest > CONNECTION_RETRY_INTERVAL

(* C25: a tick starts a session attempt only with the link up and the      *)
(* session down, and then exactly when more than CONNECTION_RETRY_INTERVAL *)
(* has passed on the session's own timestamp, whatever the link's timer    *)
(* and counter hold; two session attempts started by ticks are more than   *)
(* CONNECTION_RETRY_INTERVAL apart.                                        *)
C25_SessionAttemptsBackOff ==
    netOp.op = "maintainConnections"
        => /\ netOp.mqttAttempt
                 => /\ netOp.linkAtSessionTest
                    /\ ~netOp.sessionAtEntry
                    /\ netOp.sessionGap = -1
                          \/ netOp.sessionGap > CONNECTION_RETRY_INTERVAL
           /\ (netOp.linkAtSessionTest /\ ~netOp.sessionAtEntry)
                 => (netOp.mqttAttempt
                       <=> netOp.sessionElapsed > CONNECTION_RETRY_INTERVAL)

C25_Witness ==
    /\ netOp.op = "maintainConnections"
    /\ netOp.mqttAttempt
    /\ netOp.sessionGap > CONNECTION_RETRY_INTERVAL
    /\ ~netOp.sessionOk
    /\ wifiRetryCount > 0

(* C26: whenever a call leaves the link flag up that found it down, the    *)
(* link's retry counter is 0; a successful session attempt leaves the      *)
(* session's counter 0; a failed attempt adds one to its layer's counter   *)
(* (the session's is then cleared if the tick forces the link down).       *)
C26_CounterZeroWhenConnected ==
    netOp.op # "none"
        => /\ (~netOp.linkBefore /\ wifiConnected) => wifiRetryCount = 0
           /\ netOp.linkOk => wifiRetryCount = 0
           /\ netOp.sessionOk => mqttRetryCount = 0
           /\ (netOp.wifiAttempt /\ ~netOp.linkOk)
                 => wifiRetryCount = netOp.wifiRetryBefore + 1
           /\ (netOp.clientConnectCalled /\ ~netOp.sessionOk)
                 => IF netOp.wifiDisconnect THEN mqttRetryCount = 0
                    ELSE mqttRetryCount = netOp.retryBefore + 1

(* C30: the unit subscribes to <base>/faculty/<id>/requests, publishes its *)
(* responses on <base>/faculty/<id>/responses and its status on            *)
(* <base>/faculty/<id>/status.                                             *)
C30_TopicsFromNodeId ==
    /\ netOp.subscribedTo # ""
          => netOp.subscribedTo = "consultease/faculty/F12345/requests"
    /\ (conOp.called \in Actions /\ conOp.published # <<>>)
          => conOp.published[1].topic = "consultease/faculty/F12345/responses"
    /\ (conOp.op = "publishFacultyStatus" /\ conOp.published # <<>>)
          => conOp.published[1].topic = "consultease/faculty/F12345/status"

(* C22: from any state of the supervisor, once the network and the broker  *)
(* accept and the ticks keep coming as time advances, a tick eventually    *)
(* returns true with the link and the session up.                          *)
C22_EventuallyConnected ==
    <>(/\ netOp.op = "maintainConnections"
       /\ netOp.ret
       /\ wifiConnected /\ mqttConnected
       /\ radioUp /\ clientConnected)

C22_Witness ==
    /\ netOp.op = "maintainConnections"
    /\ netOp.ret
    /\ netOp.sessionOk
    /\ netOp.sessionGap # -1
    /\ netOp.linkAttemptEnd # -1
    /\ wifiConnected /\ mqttConnected
    /\ radioUp /\ clientConnected

(* The place of a status in the life of a consultation. *)
Stage(status) ==
    CASE status = "pending" -> 1
      [] status = "accepted" -> 2
      [] status = "started" -> 3
      [] status = "completed" -> 4
      [] OTHER -> 0

(* C31: a step in which acceptConsultation succeeds takes the status from  *)
(* pending to accepted, one in which startConsultation succeeds takes it   *)
(* from accepted to started, and both leave the id, the student name, the  *)
(* message and the pending flag as they were; a step that takes a filled   *)
(* slot to an earlier status of the life of a consultation is the arrival  *)
(* of a request, never an action.                                          *)
C31_AcceptAndStartMoveStatusOnly ==
    [][/\ (/\ conOp' # conOp
            /\ conOp'.called \in {"acceptConsultation", "startConsultation"}
            /\ conOp'.ret)
              => /\ currentConsultationStatus
                       = (IF conOp'.called = "acceptConsultation"
                          THEN "pending" ELSE "accepted")
                 /\ currentConsultationStatus'
                       = (IF conOp'.called = "acceptConsultation"
                          THEN "accepted" ELSE "started")
                 /\ currentConsultationId' = currentConsultationId
                 /\ currentStudentName' = currentStudentName
                 /\ currentRequestMessage' = currentRequestMessage
                 /\ pendingRequest' = pendingRequest
       /\ (/\ currentConsultationId' > 0
            /\ Stage(currentConsultationStatus') < Stage(currentConsultationStatus))
              => conOp'.op = "processConsultationRequest"]_vars

C31_Witness ==
    /\ conOp.called = "startConsultation" /\ conOp.ret
    /\ conOp.beforeStatus = CONSULT_STATUS_ACCEPTED /\ conOp.beforeId = 2
    /\ currentConsultationStatus = CONSULT_STATUS_STARTED
    /\ currentConsultationId = 2
    /\ currentStudentName = "Ana"
    /\ currentRequestMessage = "Need help"
    /\ pendingRequest

(* The accepted response for the consultation id has just been published   *)
(* and taken by the transport.                                             *)
AcceptedSent(id) ==
    /\ conOp.called = "acceptConsultation"
    /\ conOp.ret
    /\ conOp.published # <<>>
    /\ conOp.published[1].action = "accepted"
    /\ conOp.published[1].consultation_id = id

(* C33: once the accepted response for a consultation id has been          *)
(* published, whatever requests arrive and whatever buttons are pressed    *)
(* afterwards, no second accepted response for that id is published.       *)
C33_AcceptedPublishedOnce ==
    /\ [](AcceptedSent(1) => [](~AcceptedSent(1) => []~AcceptedSent(1)))
    /\ [](AcceptedSent(2) => [](~AcceptedSent(2) => []~AcceptedSent(2)))

(* C34: a step of processConsultationRequest that returns false leaves the *)
(* id, the status, the name, the message and the pending flag as they      *)
(* were; one that returns true leaves all five set from its payload.       *)
C34_IngestAllOrNothing ==
    [][conOp'.op = "processConsultationRequest"
         => IF conOp'.ret
            THEN /\ currentConsultationId'
                      \in {AsLong(conOp'.payload.consultation_id),
                           AsLong(conOp'.payload.id)}
                 /\ currentConsultationId' > 0
                 /\ currentConsultationStatus' = ParsedStatus(conOp'.payload)
                 /\ currentStudentName' = ParsedName(conOp'.payload)
                 /\ currentRequestMessage' = ParsedMessage(conOp'.payload)
                 /\ pendingRequest'
            ELSE /\ currentConsultationId' = currentConsultationId
                 /\ currentConsultationStatus' = currentConsultationStatus
                 /\ currentStudentName' = currentStudentName
                 /\ currentRequestMessage' = currentRequestMessage
                 /\ pendingRequest' = pendingRequest]_vars

C34_Witness ==
    /\ conOp.op = "processConsultationRequest"
    /\ conOp.ret = FALSE
    /\ conOp.payload.parses
    /\ conOp.payload.faculty_id = Str("F99999")
    /\ conOp.beforeId = 2 /\ conOp.beforeStatus = CONSULT_STATUS_STARTED
    /\ currentConsultationId = 2
    /\ currentConsultationStatus = CONSULT_STATUS_STARTED
    /\ pendingRequest

(* C35: the slot's signs of being empty agree in every state: the id is    *)
(* positive exactly when the pending flag is up (and hasPendingRequest     *)
(* says so), and a slot without a positive id has status unknown and an    *)
(* empty name and message.                                                 *)
C35_EmptinessSignsAgree ==
    /\ (currentConsultationId > 0) <=> pendingRequest
    /\ hasPendingRequest <=> (currentConsultationId > 0)
    /\ currentConsultationId <= 0
          => /\ currentConsultationStatus = "unknown"
             /\ currentStudentName = ""
             /\ currentRequestMessage = ""

C35_Witness ==
    /\ conOp.called = "rejectConsultation" /\ conOp.ret
    /\ conOp.beforeId > 0
    /\ currentConsultationId = -1
    /\ ~pendingRequest
    /\ currentStudentName = ""

(* C32: a checkFacultyTimeout call reports a timeout only when its         *)
(* argument is not earlier than lastBeaconSignalTime and more than         *)
(* BLE_CONNECTION_TIMEOUT lies between them, whenever the caller sampled   *)
(* the argument relative to the last advertisement.                        *)
C32_TimeoutNeedsElapsedTime ==
    (bleOp.op = "checkFacultyTimeout" /\ bleOp.ret)
        => /\ bleOp.time >= lastBeaconSignalTime
           /\ bleOp.time - lastBeaconSignalTime > BLE_CONNECTION_TIMEOUT
           /\ now - lastBeaconSignalTime > BLE_CONNECTION_TIMEOUT

(* C37: bleScanActive is up only while the scanner is scanning, so that a  *)
(* startScan without override is never refused after a scan has ended.     *)
C37_ScanFlagFollowsScanner == bleScanActive => isScanning

(* C40: a startScan call made under override returns false, and in no     *)
(* state is the scanner scanning while the override is active.             *)
C40_NoScanUnderOverride ==
    /\ (bleOp.op = "startScan" /\ bleOp.override) => ~bleOp.ret
    /\ ~(manualOverrideActive /\ isScanning)

(* C36: at the end of a maintainConnections call the link flag is up only  *)
(* if the radio reported the link at entry or the call's own link attempt  *)
(* succeeded, and only such a call makes a session attempt.                *)
C36_LinkFlagFollowsRadio ==
    netOp.op = "maintainConnections"
        => /\ wifiConnected => (netOp.radioAtEntry \/ netOp.linkOk)
           /\ netOp.mqttAttempt => (netOp.radioAtEntry \/ netOp.linkOk)

(* A press event of one button, as the contract states it: the update     *)
(* that took the debounced state from HIGH to LOW, and no other.           *)
PressReported(flag, before, state) == flag <=> (before = "HIGH" /\ state = "LOW")

(* C38: after every update, each of the three press flags is up exactly    *)
(* when that update moved the button's debounced state from HIGH to LOW:   *)
(* a flag raised by one update is down after the next, a button held down  *)
(* raises no further event, and a new event needs the debounced state back *)
(* at HIGH first.                                                          *)
C38_OnePressPerTransition ==
    btnOp.op = "update"
        => /\ PressReported(wasManualOverridePressed,
                            btnOp.manualOverrideBefore, manualOverrideState)
           /\ PressReported(wasAcceptPressed, btnOp.acceptBefore, acceptState)
           /\ PressReported(wasRejectPressed, btnOp.rejectBefore, rejectState)

(* The accept button is held down: the update after the one that reported  *)
(* the press reads the pin LOW again and reports nothing.                  *)
C38_Witness ==
    /\ btnOp.op = "update"
    /\ btnOp.acceptBefore = "LOW" /\ acceptState = "LOW"
    /\ lastAcceptState = "LOW"
    /\ USub(now, lastAcceptDebounceTime) > BUTTON_DEBOUNCE_DELAY
    /\ ~wasAcceptPressed
    /\ wasRejectPressed

(* C39: every call of setCpuFrequencyMHz, setPowerMode or initialize that  *)
(* is in progress returns: the stack of calls empties again.               *)
C39_PowerCallsReturn == [](pwrStack # <<>> => <>(pwrStack = <<>>))

====
